---- MODULE Spec2Model ----
(***************************************************************************)
(* A model of the concurrent core of rss-aggregator-go:                    *)
(*   - the token bucket rate limiter (internal/middleware, ratelimit.go),  *)
(*   - the realtime hub and its clients (internal/realtime),               *)
(*   - the feed scraper (internal/scraper),                                *)
(*   - the auth handlers and their refresh tokens (internal/handlers).     *)
(* Each component has its own specifications (SpecBucket, SpecGate,        *)
(* SpecHub, SpecHubFair, SpecKeepalive, SpecScraper, SpecSources,          *)
(* SpecSourcesFair, SpecAuth) over the one set of variables declared here. *)
(***************************************************************************)
EXTENDS Integers, Sequences, FiniteSets, TLC

(***************************************************************************)
(* Bounds of the model.                                                    *)
(***************************************************************************)
\* largest bucket capacity (BurstSize) tried
MaxCap == 2
\* token sub-units per whole token: tokens is a float64 in the code, here an
\* exact fixed-point number counted in 1/Scale tokens
Scale == 2
\* largest refill rate tried, in sub-units per clock tick
MaxRate == 2
\* last clock tick
MaxTime == 3
\* goroutines calling Consume
NumCallers == 3
\* subscriber identities (user.ID)
NumUsers == 2
\* websocket sessions (Client objects) over the life of the process
NumClients == 2
\* capacity of a client's send channel: make(chan []byte, 256) in the code
SendCap == 2
\* signal batches submitted to the hub by the producers of SpecHub
MaxBatches == 3
\* feeds in the database
NumSources == 2
\* distinct post urls the feeds can carry
NumLinks == 2
\* items in one fetched feed
MaxItems == 2
\* ticks of the scraper's ticker
MaxCycles == 2
\* largest feed priority and largest updated_at among the feeds
MaxPriority == 2
MaxUpdatedAt == 2
\* last second of the keepalive clock of a session
MaxClock == 650
\* accounts that can be registered
NumAccounts == 2
\* refresh tokens GenerateRefreshToken hands out over a run
MaxTokens == 4

Min(a, b) == IF a < b THEN a ELSE b

Callers == 1..NumCallers
\* enough calls for a burst of MaxCap, the rejected call after it, and a refilled
\* call followed by one more rejected call
MaxCalls == MaxCap + 3

VARIABLES
  \* ---- TokenBucket (ratelimit.go) ----
  tokens,      \* tb.tokens, in 1/Scale tokens
  capacity,    \* tb.capacity, in whole tokens
  refillRate,  \* tb.refillRate, in 1/Scale tokens per tick
  lastRefill,  \* tb.lastRefill
  mu,          \* tb.mu: 0 when free, else the caller holding it
  now,         \* the wall clock, time.Now()
  callPc,      \* where each caller is inside Consume
  callNow,     \* each caller's local `now` (0 outside the call)
  log,         \* the calls that returned, in order: [ok, at]
  \* ---- RateLimit middleware (ratelimit.go) ----
  limiterSet,  \* limiter != nil: InitRateLimiter has run
  reqPc,       \* where each request is inside the RateLimit handler
  reqRet,      \* what limiter.Consume() returned to the handler
  reqLog,      \* history: the requests served, in order:
               \* [consumed, forwarded, rejected]
  \* ---- Hub and Client (hub.go, client.go) ----
  clients,     \* hub.clients: user -> registered client, NoClient if none
  send,        \* client.send: the buffered payloads of each client
  sendClosed,  \* whether close(client.send) has happened
  hubPc,       \* "select", or "signal" while Run ranges over a batch
  signals,     \* the batch Run received: the users of the map (all carry
               \* one payload), {} outside the range loop
  hubTodo,     \* the users of the batch not yet ranged over
  hubPayload,  \* the payload of the batch being ranged over
  panicked,    \* a goroutine panicked: the process is gone
  userID,      \* client.userID, 0 before NewClient
  clientPc,    \* HandlerWebsocket / ReadPump position of each client
  pumpPc,      \* WritePump position of each client
  enq,         \* history: every payload the hub put on client.send
  delivered,   \* history: every payload WritePump wrote to the transport
  kickedAt,    \* history: the batch whose overflow closed the client, or 0
  nextBatch,   \* the number (and payload) of the next batch
  \* ---- Scraper (scraper.go) and the database it uses ----
  feeds,       \* StartScraping's local `feeds`: the rows GetFeedsByPriority
               \* returned, source -> [priority, updated_at]; NoRows outside
               \* the range loop over it
  posts,       \* table posts: url -> number of rows with that url
  schedPc,     \* StartScraping: "ticker", "dispatch" or "wait"
  tickPending, \* ticker.C (a channel of capacity 1) holds a tick
  lastFeed,    \* history: what each source's task fetched in the previous
               \* cycle, and whether all its inserts went without failure;
               \* kept until the source is fetched again
  sameFeed,    \* history: how the feed this task fetched compares with
               \* lastFeed: "no", or the same after a "clean" or "dirty" cycle
  cycle,       \* ticks taken so far
  toLaunch,    \* the slice the range loop goes over, in the query's order
  wg,          \* the cycle's sync.WaitGroup counter
  taskPc,      \* scrapeFeed of each feed: "idle", "fetch", "items", "send", "done"
  parsedFeed,  \* parsedFeed.Items of each task (<<>> before the fetch)
  fetchFailed, \* history: the task's fetchFeed returned an error
  itemIdx,     \* the item the task's range loop is at
  newPostCount,\* newPostCount of each task
  followers,   \* the signals map of a task blocked in SendSignal
  failedNow,   \* history: urls whose CreatePost failed in this run of the task
  counted,     \* history: per url, the CreatePost calls scrapeFeed took as new posts
  feedTable,   \* the feeds table: priority and updated_at of each feed
  tableAtTick, \* history: the feeds table as the last tick's query read it
               \* (NoRows when that query failed)
  \* ---- the keepalive of one session (client.go), in seconds ----
  clock,       \* time since the session's ReadPump and WritePump started
  readDeadline,\* the conn's read deadline, as SetReadDeadline last set it
  pingAt,      \* when WritePump's ticker fires next
  unacked,     \* pings written for which no pong has been read yet
  keepPc,      \* "open"; "readgone": ReadPump returned and closed the conn;
               \* "gone": WritePump returned too
  \* ---- the auth handlers and the users / refresh_tokens tables ----
  users,         \* the accounts that have a row in users
  refreshTokens, \* the rows of refresh_tokens: [userID, tokenHash, expired]
  minted,        \* refresh tokens generated so far; token k is the k-th one
  spent,         \* history: tokens a successful refresh was made with, or
                 \* that were stored when their user logged in again or out
  authLog        \* the last response: [op, token, status]

bucketVars ==
  <<tokens, capacity, refillRate, lastRefill, mu, now, callPc, callNow, log>>

gateVars == <<limiterSet, reqPc, reqRet, reqLog>>

hubVars ==
  <<clients, send, sendClosed, hubPc, signals, hubTodo, hubPayload, panicked,
    userID, clientPc, pumpPc, enq, delivered, kickedAt, nextBatch>>

scraperVars ==
  <<feeds, posts, schedPc, tickPending, lastFeed, sameFeed, cycle, toLaunch, wg, taskPc, parsedFeed,
    fetchFailed, itemIdx, newPostCount, followers, failedNow, counted,
    feedTable>>

auditVars == <<tableAtTick>>

authVars == <<users, refreshTokens, minted, spent, authLog>>

keepVars == <<clock, readDeadline, pingAt, unacked, keepPc>>

vars == <<bucketVars, gateVars, hubVars, scraperVars, keepVars, auditVars, authVars>>

----------------------------------------------------------------------------
(***************************************************************************)
(* TokenBucket                                                             *)
(***************************************************************************)

\* NewTokenBucket(capacity, refillRate): a full bucket, lastRefill = time.Now()
NewTokenBucket ==
  /\ capacity \in 1..MaxCap
  /\ refillRate \in 0..MaxRate
  /\ tokens = capacity * Scale
  /\ now = 0
  /\ lastRefill = now
  /\ mu = 0
  /\ callPc = [p \in Callers |-> "idle"]
  /\ callNow = [p \in Callers |-> 0]
  /\ log = <<>>

InFlight == {p \in Callers : callPc[p] # "idle"}

\* a goroutine calls tb.Consume() and reaches tb.mu.Lock()
ConsumeCall(p) ==
  /\ callPc[p] = "idle"
  /\ Len(log) + Cardinality(InFlight) < MaxCalls
  /\ callPc' = [callPc EXCEPT ![p] = "lock"]
  /\ UNCHANGED <<tokens, capacity, refillRate, lastRefill, mu, now, callNow, log>>

\* a lock that does not exclude: what Consume would be without tb.mu
MutexFreeAlways == TRUE

\* sync.Mutex: Lock() returns only when no other goroutine holds tb.mu
MutexFree == mu = 0

\* tb.mu.Lock() returns
ConsumeLock(p) ==
  /\ callPc[p] = "lock"
  /\ MutexFree
  /\ mu' = p
  /\ callPc' = [callPc EXCEPT ![p] = "refill"]
  /\ UNCHANGED <<tokens, capacity, refillRate, lastRefill, now, callNow, log>>

\* a refill that forgets the cap
RefilledNoCap(t, elapsed) == t + elapsed * refillRate

\* a refill that keeps whole tokens only
RefilledWholeOnly(t, elapsed) ==
  Scale * (Min(t + elapsed * refillRate, capacity * Scale) \div Scale)

\* the refilled count: tokens + elapsed*refillRate, capped at capacity
Refilled(t, elapsed) == Min(t + elapsed * refillRate, capacity * Scale)

\* a test that a fraction of a token passes
HasTokenAny(t) == t > 0

\* a test that needs more than one token
HasTokenStrict(t) == t > Scale

\* if tb.tokens >= 1.0
HasToken(t) == t >= Scale

\* a lastRefill that is never advanced
StaleLastRefill(n) == lastRefill

\* tb.lastRefill = now
NextLastRefill(n) == n

\* now := time.Now(); refill; cap; lastRefill = now; test tokens >= 1.0
ConsumeRefill(p) ==
  /\ callPc[p] = "refill"
  /\ LET t == Refilled(tokens, now - lastRefill)
     IN /\ tokens' = t
        /\ lastRefill' = NextLastRefill(now)
        /\ callNow' = [callNow EXCEPT ![p] = now]
        /\ IF HasToken(t)
             THEN /\ callPc' = [callPc EXCEPT ![p] = "dec"]
                  /\ log' = log
             ELSE /\ callPc' = [callPc EXCEPT ![p] = "unlock"]
                  /\ log' = Append(log, [ok |-> FALSE, at |-> now])
  /\ UNCHANGED <<capacity, refillRate, mu, now>>

\* tb.tokens--; return true
ConsumeDec(p) ==
  /\ callPc[p] = "dec"
  /\ tokens' = tokens - Scale
  /\ log' = Append(log, [ok |-> TRUE, at |-> callNow[p]])
  /\ callPc' = [callPc EXCEPT ![p] = "unlock"]
  /\ UNCHANGED <<capacity, refillRate, lastRefill, mu, now, callNow>>

\* defer tb.mu.Unlock()
ConsumeUnlock(p) ==
  /\ callPc[p] = "unlock"
  /\ mu' = 0
  /\ callPc' = [callPc EXCEPT ![p] = "idle"]
  /\ callNow' = [callNow EXCEPT ![p] = 0]
  /\ UNCHANGED <<tokens, capacity, refillRate, lastRefill, now, log>>

\* time passes
Tick ==
  /\ now < MaxTime
  /\ now' = now + 1
  /\ UNCHANGED <<tokens, capacity, refillRate, lastRefill, mu, callPc, callNow, log>>

----------------------------------------------------------------------------
(***************************************************************************)
(* RateLimit middleware                                                    *)
(***************************************************************************)

\* the package variable limiter after InitRateLimiter, no request in flight
GateAtStart ==
  /\ reqPc = [p \in Callers |-> "idle"]
  /\ reqRet = [p \in Callers |-> "none"]
  /\ reqLog = <<>>

\* requests inside the handler
InHandler == {p \in Callers : reqPc[p] # "idle"}

\* the handler is entered with limiter == nil: the request goes on
RateLimitPass(p) ==
  /\ ~limiterSet
  /\ reqPc[p] = "idle"
  /\ Len(reqLog) + Cardinality(InHandler) < MaxCalls
  /\ reqPc' = [reqPc EXCEPT ![p] = "forward"]
  /\ UNCHANGED <<limiterSet, reqRet, reqLog>>

\* the handler is entered with a limiter: it calls limiter.Consume()
RateLimitEnter(p) ==
  /\ limiterSet
  /\ reqPc[p] = "idle"
  /\ ConsumeCall(p)
  /\ reqPc' = [reqPc EXCEPT ![p] = "consume"]
  /\ UNCHANGED <<limiterSet, reqRet, reqLog>>

\* inside Consume: the lock is taken
RateLimitLock(p) ==
  /\ reqPc[p] = "consume"
  /\ ConsumeLock(p)
  /\ UNCHANGED gateVars

\* inside Consume: refill and test; `return false` is on this path
RateLimitRefill(p) ==
  /\ reqPc[p] = "consume"
  /\ ConsumeRefill(p)
  /\ reqRet' = [reqRet EXCEPT ![p] = IF callPc'[p] = "unlock" THEN "false" ELSE @]
  /\ UNCHANGED <<limiterSet, reqPc, reqLog>>

\* inside Consume: tb.tokens--; return true
RateLimitDec(p) ==
  /\ reqPc[p] = "consume"
  /\ ConsumeDec(p)
  /\ reqRet' = [reqRet EXCEPT ![p] = "true"]
  /\ UNCHANGED <<limiterSet, reqPc, reqLog>>

\* Consume returns to the handler: if !limiter.Consume() ... else ...
RateLimitReturn(p) ==
  /\ reqPc[p] = "consume"
  /\ ConsumeUnlock(p)
  /\ reqPc' = [reqPc EXCEPT ![p] = IF reqRet[p] = "true" THEN "forward" ELSE "reject"]
  /\ UNCHANGED <<limiterSet, reqRet, reqLog>>

\* next.ServeHTTP(w, r), then the handler returns
RateLimitForward(p) ==
  /\ reqPc[p] = "forward"
  /\ reqLog' = Append(reqLog, [consumed |-> reqRet[p], forwarded |-> 1, rejected |-> FALSE])
  /\ reqPc' = [reqPc EXCEPT ![p] = "idle"]
  /\ reqRet' = [reqRet EXCEPT ![p] = "none"]
  /\ UNCHANGED limiterSet

\* a rejection whose `return` is missing: the request is served all the same
RateLimitRejectFallsThrough(p) ==
  /\ reqPc[p] = "reject"
  /\ reqLog' = Append(reqLog, [consumed |-> reqRet[p], forwarded |-> 1, rejected |-> TRUE])
  /\ reqPc' = [reqPc EXCEPT ![p] = "idle"]
  /\ reqRet' = [reqRet EXCEPT ![p] = "none"]
  /\ UNCHANGED limiterSet

\* RespondWithError(w, 429, ...); return
RateLimitReject(p) ==
  /\ reqPc[p] = "reject"
  /\ reqLog' = Append(reqLog, [consumed |-> reqRet[p], forwarded |-> 0, rejected |-> TRUE])
  /\ reqPc' = [reqPc EXCEPT ![p] = "idle"]
  /\ reqRet' = [reqRet EXCEPT ![p] = "none"]
  /\ UNCHANGED limiterSet

----------------------------------------------------------------------------
(***************************************************************************)
(* Hub and Client                                                          *)
(***************************************************************************)

Users == 1..NumUsers
Clients == 1..NumClients
NoClient == 0

\* client.userID: the identity the session was authenticated as
UserOf(c) == userID[c]

\* NewHub: an empty registry; no session exists yet
NewHub ==
  /\ clients = [u \in Users |-> NoClient]
  /\ send = [c \in Clients |-> <<>>]
  /\ sendClosed = [c \in Clients |-> FALSE]
  /\ hubPc = "select"
  /\ signals = {}
  /\ hubTodo = {}
  /\ hubPayload = 0
  /\ panicked = FALSE
  /\ userID = [c \in Clients |-> 0]
  /\ clientPc = [c \in Clients |-> "new"]
  /\ pumpPc = [c \in Clients |-> "none"]
  /\ enq = [c \in Clients |-> <<>>]
  /\ delivered = [c \in Clients |-> <<>>]
  /\ kickedAt = [c \in Clients |-> 0]
  /\ nextBatch = 1

\* a handler that starts the pumps without registering the client
ConnectPumpsFirst(c, u) ==
  /\ clientPc[c] = "new"
  /\ userID' = [userID EXCEPT ![c] = u]
  /\ clientPc' = [clientPc EXCEPT ![c] = "reading"]
  /\ pumpPc' = [pumpPc EXCEPT ![c] = "running"]
  /\ UNCHANGED <<clients, send, sendClosed, hubPc, signals, hubTodo, hubPayload, panicked,
                 enq, delivered, kickedAt, nextBatch>>

\* HandlerWebsocket for an authenticated user: Upgrade, NewClient, then
\* RegisterClient blocks on the unbuffered hub.register until Run receives
Connect(c, u) ==
  /\ clientPc[c] = "new"
  /\ userID' = [userID EXCEPT ![c] = u]
  /\ clientPc' = [clientPc EXCEPT ![c] = "registering"]
  /\ UNCHANGED <<clients, send, sendClosed, hubPc, signals, hubTodo, hubPayload, panicked,
                 pumpPc, enq, delivered, kickedAt, nextBatch>>

\* a register case that keeps the entry an identity already has
HubRegisterKeepsFirst(c) ==
  /\ hubPc = "select"
  /\ clientPc[c] = "registering"
  /\ clients' = IF clients[UserOf(c)] = NoClient
                  THEN [clients EXCEPT ![UserOf(c)] = c]
                  ELSE clients
  /\ clientPc' = [clientPc EXCEPT ![c] = "reading"]
  /\ pumpPc' = [pumpPc EXCEPT ![c] = "running"]
  /\ UNCHANGED <<send, sendClosed, hubPc, signals, hubTodo, hubPayload, panicked, userID,
                 enq, delivered, kickedAt, nextBatch>>

\* Run, case client := <-hub.register; the handler then starts WritePump and
\* enters ReadPump
HubRegister(c) ==
  /\ hubPc = "select"
  /\ clientPc[c] = "registering"
  /\ clients' = [clients EXCEPT ![UserOf(c)] = c]
  /\ clientPc' = [clientPc EXCEPT ![c] = "reading"]
  /\ pumpPc' = [pumpPc EXCEPT ![c] = "running"]
  /\ UNCHANGED <<send, sendClosed, hubPc, signals, hubTodo, hubPayload, panicked, userID,
                 enq, delivered, kickedAt, nextBatch>>

\* close(ch): a second close of a channel panics
CloseSend(c) ==
  IF sendClosed[c]
    THEN /\ panicked' = TRUE
         /\ sendClosed' = sendClosed
    ELSE /\ panicked' = panicked
         /\ sendClosed' = [sendClosed EXCEPT ![c] = TRUE]

\* an unregister case that deletes the entry and leaves client.send open
HubUnregisterNoClose(c) ==
  /\ hubPc = "select"
  /\ clientPc[c] = "unregistering"
  /\ clients' = [clients EXCEPT ![UserOf(c)] = NoClient]
  /\ clientPc' = [clientPc EXCEPT ![c] = "exited"]
  /\ UNCHANGED <<send, sendClosed, panicked, hubPc, signals, hubTodo, hubPayload,
                 userID, pumpPc, enq, delivered, kickedAt, nextBatch>>

\* Run, case client := <-hub.unregister: the entry of client.userID is looked
\* up, deleted, and client.send is closed; ReadPump then closes the conn
HubUnregister(c) ==
  /\ hubPc = "select"
  /\ clientPc[c] = "unregistering"
  /\ IF clients[UserOf(c)] # NoClient
       THEN /\ clients' = [clients EXCEPT ![UserOf(c)] = NoClient]
            /\ CloseSend(c)
       ELSE UNCHANGED <<clients, sendClosed, panicked>>
  /\ clientPc' = [clientPc EXCEPT ![c] = "exited"]
  /\ UNCHANGED <<send, hubPc, signals, hubTodo, hubPayload, userID, pumpPc, enq,
                 delivered, kickedAt, nextBatch>>

\* a signal channel that takes a map whatever Run is doing
HubRecvSignalAnytime(batch, payload) ==
  /\ batch # {}
  /\ hubPc' = "signal"
  /\ signals' = batch
  /\ hubTodo' = batch
  /\ hubPayload' = payload
  /\ UNCHANGED <<clients, send, sendClosed, panicked, userID, clientPc, pumpPc,
                 enq, delivered, kickedAt>>

\* Run, case signals := <-hub.signal: SendSignal's rendezvous with Run; every
\* user of the batch carries the same payload (sendNewPostSignal); the payload
\* is the producer's: a serial number in SpecHub, the count of new posts of
\* the scraper's NEW_POST_AVAILABLE message in SpecScraper
HubRecvSignal(batch, payload) ==
  /\ hubPc = "select"
  /\ batch # {}
  /\ hubPc' = "signal"
  /\ signals' = batch
  /\ hubTodo' = batch
  /\ hubPayload' = payload
  /\ UNCHANGED <<clients, send, sendClosed, panicked, userID, clientPc, pumpPc,
                 enq, delivered, kickedAt>>

\* a lookup whose miss is not tested: the nil client is dereferenced
SignalUnknownPanics(u) ==
  /\ panicked' = TRUE
  /\ UNCHANGED <<clients, send, sendClosed, enq, kickedAt>>

\* if client, ok := hub.clients[userID]; !ok: nothing happens
SignalUnknown(u) ==
  UNCHANGED <<clients, send, sendClosed, panicked, enq, kickedAt>>

\* case client.send <- payload
SignalEnqueue(u, c) ==
  /\ send' = [send EXCEPT ![c] = Append(@, hubPayload)]
  /\ enq' = [enq EXCEPT ![c] = Append(@, hubPayload)]
  /\ UNCHANGED <<clients, sendClosed, panicked, kickedAt>>

\* an overflow that tears every connection down
SignalOverflowAll(u, c) ==
  /\ sendClosed' = [d \in Clients |-> TRUE]
  /\ clients' = [v \in Users |-> NoClient]
  /\ kickedAt' = [kickedAt EXCEPT ![c] = hubPayload]
  /\ UNCHANGED <<send, panicked, enq>>

\* an overflow that closes the queue and keeps the registry entry
SignalOverflowKeepsEntry(u, c) ==
  /\ sendClosed' = [sendClosed EXCEPT ![c] = TRUE]
  /\ kickedAt' = [kickedAt EXCEPT ![c] = hubPayload]
  /\ UNCHANGED <<clients, send, panicked, enq>>

\* default: close(client.send); delete(hub.clients, userID)
SignalOverflow(u, c) ==
  /\ sendClosed' = [sendClosed EXCEPT ![c] = TRUE]
  /\ clients' = [clients EXCEPT ![u] = NoClient]
  /\ kickedAt' = [kickedAt EXCEPT ![c] = hubPayload]
  /\ UNCHANGED <<send, panicked, enq>>

\* a send on a closed channel panics, inside a select too
SignalOnClosed(u, c) ==
  /\ panicked' = TRUE
  /\ UNCHANGED <<clients, send, sendClosed, enq, kickedAt>>

\* a buffer that takes one payload more than its capacity
CanSendOffByOne(c) == Len(send[c]) <= SendCap

\* the non-blocking send goes through while the buffer has room
CanSend(c) == Len(send[c]) < SendCap

\* Run, one iteration of `for userID, payload := range signals`; Go ranges over
\* a map in no fixed order
HubSignalStep(u) ==
  /\ hubPc = "signal"
  /\ u \in hubTodo
  /\ LET c == clients[u]
     IN IF c = NoClient THEN SignalUnknown(u)
        ELSE IF sendClosed[c] THEN SignalOnClosed(u, c)
        ELSE IF CanSend(c) THEN SignalEnqueue(u, c)
        ELSE SignalOverflow(u, c)
  /\ hubTodo' = hubTodo \ {u}
  /\ hubPc' = IF hubTodo \ {u} = {} THEN "select" ELSE "signal"
  /\ hubPayload' = IF hubTodo \ {u} = {} THEN 0 ELSE hubPayload
  /\ signals' = IF hubTodo \ {u} = {} THEN {} ELSE signals
  /\ UNCHANGED <<userID, clientPc, pumpPc, delivered, nextBatch>>

\* a read task that closes its own queue before handing off
ReadErrCloses(c) ==
  /\ clientPc[c] = "reading"
  /\ clientPc' = [clientPc EXCEPT ![c] = "unregistering"]
  /\ sendClosed' = [sendClosed EXCEPT ![c] = TRUE]
  /\ UNCHANGED <<clients, send, hubPc, signals, hubTodo, hubPayload, panicked,
                 userID, pumpPc, enq, delivered, kickedAt, nextBatch>>

\* a read task that removes its own registry entry instead of handing off
ReadErrDeletes(c) ==
  /\ clientPc[c] = "reading"
  /\ clientPc' = [clientPc EXCEPT ![c] = "unregistering"]
  /\ clients' = [clients EXCEPT ![UserOf(c)] = NoClient]
  /\ UNCHANGED <<send, sendClosed, hubPc, signals, hubTodo, hubPayload, panicked,
                 userID, pumpPc, enq, delivered, kickedAt, nextBatch>>

\* ReadPump: c.conn.ReadMessage() fails (the peer left, the read deadline
\* passed, or the conn was closed); the deferred function then blocks on
\* c.hub.unregister <- c
ReadErr(c) ==
  /\ clientPc[c] = "reading"
  /\ clientPc' = [clientPc EXCEPT ![c] = "unregistering"]
  /\ UNCHANGED <<clients, send, sendClosed, hubPc, signals, hubTodo, hubPayload, panicked,
                 userID, pumpPc, enq, delivered, kickedAt, nextBatch>>

\* a pump that takes the newest payload of the queue
PumpWriteNewest(c) ==
  /\ pumpPc[c] = "running"
  /\ send[c] # <<>>
  /\ clientPc[c] # "exited"
  /\ delivered' = [delivered EXCEPT ![c] = Append(@, send[c][Len(send[c])])]
  /\ send' = [send EXCEPT ![c] = SubSeq(@, 1, Len(@) - 1)]
  /\ UNCHANGED <<clients, sendClosed, hubPc, signals, hubTodo, hubPayload, panicked,
                 userID, clientPc, pumpPc, enq, kickedAt, nextBatch>>

\* WritePump, case message, ok := <-c.send with ok: WriteMessage succeeds;
\* it cannot once ReadPump has closed the conn
PumpWrite(c) ==
  /\ pumpPc[c] = "running"
  /\ send[c] # <<>>
  /\ clientPc[c] # "exited"
  /\ delivered' = [delivered EXCEPT ![c] = Append(@, Head(send[c]))]
  /\ send' = [send EXCEPT ![c] = Tail(@)]
  /\ UNCHANGED <<clients, sendClosed, hubPc, signals, hubTodo, hubPayload, panicked,
                 userID, clientPc, pumpPc, enq, kickedAt, nextBatch>>

\* WritePump, same case, WriteMessage fails: return, the conn is closed
PumpWriteFail(c) ==
  /\ pumpPc[c] = "running"
  /\ send[c] # <<>>
  /\ send' = [send EXCEPT ![c] = Tail(@)]
  /\ pumpPc' = [pumpPc EXCEPT ![c] = "failed"]
  /\ UNCHANGED <<clients, sendClosed, hubPc, signals, hubTodo, hubPayload, panicked,
                 userID, clientPc, enq, delivered, kickedAt, nextBatch>>

\* WritePump, case message, ok := <-c.send with !ok (closed and drained):
\* the close message is written and the pump returns
PumpClosed(c) ==
  /\ pumpPc[c] = "running"
  /\ send[c] = <<>>
  /\ sendClosed[c]
  /\ pumpPc' = [pumpPc EXCEPT ![c] = "closed"]
  /\ UNCHANGED <<clients, send, sendClosed, hubPc, signals, hubTodo, hubPayload, panicked,
                 userID, clientPc, enq, delivered, kickedAt, nextBatch>>

\* WritePump, case <-ticker.C: a ping is written; on failure the pump
\* returns; the write cannot succeed once ReadPump has closed the conn
PumpPing(c) ==
  /\ pumpPc[c] = "running"
  /\ \/ clientPc[c] # "exited" /\ pumpPc' = pumpPc
     \/ pumpPc' = [pumpPc EXCEPT ![c] = "failed"]
  /\ UNCHANGED <<clients, send, sendClosed, hubPc, signals, hubTodo, hubPayload, panicked,
                 userID, clientPc, enq, delivered, kickedAt, nextBatch>>

----------------------------------------------------------------------------
(***************************************************************************)
(* The keepalive of a session: ReadPump's read deadline and WritePump's    *)
(* ping ticker, with time in seconds                                       *)
(***************************************************************************)

\* pongWait = 60 * time.Second
pongWait == 60
\* pingPeriod = (pongWait * 9) / 10
pingPeriod == (pongWait * 9) \div 10

\* the session as its two pumps start: ReadPump sets the read deadline,
\* WritePump creates its ticker
NewSession ==
  /\ clock = 0
  /\ readDeadline = pongWait
  /\ pingAt = pingPeriod
  /\ unacked = 0
  /\ keepPc = "open"

\* a pump that pings only when no ping is waiting for its pong
PumpPingIfAcked ==
  /\ keepPc = "open"
  /\ clock = pingAt
  /\ pingAt' = pingAt + pingPeriod
  /\ unacked' = IF unacked = 0 THEN 1 ELSE unacked
  /\ UNCHANGED <<clock, readDeadline, keepPc>>

\* WritePump, case <-ticker.C on an open conn: WriteMessage(PingMessage)
PumpPingSend ==
  /\ keepPc = "open"
  /\ clock = pingAt
  /\ pingAt' = pingAt + pingPeriod
  /\ unacked' = unacked + 1
  /\ UNCHANGED <<clock, readDeadline, keepPc>>

\* WritePump, case <-ticker.C once ReadPump has closed the conn: the write
\* fails and WritePump returns
PumpPingOnClosed ==
  /\ keepPc = "readgone"
  /\ clock = pingAt
  /\ keepPc' = "gone"
  /\ UNCHANGED <<clock, readDeadline, pingAt, unacked>>

\* ReadMessage reads a pong before the deadline: the pong handler sets the
\* read deadline to now + pongWait; the peer answers pings in order
PongHandler ==
  /\ keepPc = "open"
  /\ unacked > 0
  /\ clock < readDeadline
  /\ readDeadline' = clock + pongWait
  /\ unacked' = unacked - 1
  /\ UNCHANGED <<clock, pingAt, keepPc>>

\* ReadMessage returns an error, at the latest when the read deadline has
\* passed: ReadPump returns and closes the conn
ReadPumpReturns ==
  /\ keepPc = "open"
  /\ keepPc' = "readgone"
  /\ UNCHANGED <<clock, readDeadline, pingAt, unacked>>

\* a second passes; the ticker's tick and the read deadline are not overslept
ClockTick ==
  /\ clock < MaxClock
  /\ keepPc # "gone" => clock < pingAt
  /\ keepPc = "open" => clock < readDeadline
  /\ clock' = clock + 1
  /\ UNCHANGED <<readDeadline, pingAt, unacked, keepPc>>

----------------------------------------------------------------------------
(***************************************************************************)
(* Scraper                                                                 *)
(***************************************************************************)

Sources == 1..NumSources
Links == 1..NumLinks

\* what fetchFeed can return as parsedFeed.Items: the urls of the items
FeedLists == UNION {[1..n -> Links] : n \in 0..MaxItems}

\* no feed was fetched for the source in the previous cycle
NoLastFeed == [items |-> <<0>>, clean |-> FALSE]

\* the scraper before its first tick, over a given database
ScraperAtStart ==
  /\ schedPc = "ticker"
  /\ tickPending = FALSE
  /\ lastFeed = [s \in Sources |-> NoLastFeed]
  /\ sameFeed = [s \in Sources |-> "no"]
  /\ cycle = 0
  /\ toLaunch = <<>>
  /\ wg = 0
  /\ taskPc = [s \in Sources |-> "idle"]
  /\ parsedFeed = [s \in Sources |-> <<>>]
  /\ fetchFailed = [s \in Sources |-> FALSE]
  /\ itemIdx = [s \in Sources |-> 1]
  /\ newPostCount = [s \in Sources |-> 0]
  /\ followers = [s \in Sources |-> {}]
  /\ failedNow = [s \in Sources |-> {}]
  /\ counted = [l \in Links |-> 0]

\* what the feeds table can hold when it is queried: feeds of any priority
\* and age (the API's handlers write it)
FeedTables ==
  [Sources -> [priority : 1..MaxPriority, updatedAt : 1..MaxUpdatedAt]]

\* no query result is held
NoRows == [s \in Sources |-> [priority |-> 0, updatedAt |-> 0]]

\* NewScraper over a database with an empty posts table
NewScraper ==
  /\ feeds = NoRows
  /\ posts = [l \in Links |-> 0]
  /\ ScraperAtStart

\* ORDER BY priority DESC, updated_at ASC: a comes strictly before b among
\* the rows held
Before(a, b) ==
  \/ feeds[a].priority > feeds[b].priority
  \/ feeds[a].priority = feeds[b].priority /\ feeds[a].updatedAt < feeds[b].updatedAt

\* the feeds table of the specifications that do not follow it
TableUntracked == feedTable = NoRows /\ tableAtTick = NoRows

\* any order of the rows, as SELECT * FROM feeds would give
GetFeedsUnordered ==
  {q \in [1..NumSources -> Sources] :
     \A i, j \in 1..NumSources : i # j => q[i] # q[j]}

\* SELECT * FROM feeds ORDER BY priority DESC, updated_at ASC: every order of
\* the rows the ORDER BY allows (rows that tie come in any order)
GetFeedsByPriority ==
  {q \in [1..NumSources -> Sources] :
     /\ \A i, j \in 1..NumSources : i # j => q[i] # q[j]
     /\ \A i, j \in 1..NumSources : i < j => ~Before(q[j], q[i])}

\* time.Ticker: every interval a tick is put on ticker.C unless one is still
\* there (the ticker drops ticks for a slow receiver); this happens whatever
\* StartScraping is doing
TimerFire ==
  /\ ~tickPending
  /\ cycle < MaxCycles
  /\ tickPending' = TRUE
  /\ UNCHANGED <<feeds, posts, schedPc, lastFeed, sameFeed, cycle, toLaunch, wg, taskPc,
                 parsedFeed, fetchFailed, itemIdx, newPostCount, followers,
                 failedNow, counted>>
  /\ feedTable' = feedTable

\* a loop that takes a tick whatever the previous cycle is doing
SchedTickAnytime(table) ==
  /\ tickPending
  /\ cycle < MaxCycles
  /\ cycle' = cycle + 1
  /\ tickPending' = FALSE
  /\ \/ /\ feeds' = table
        /\ toLaunch' \in GetFeedsByPriority'
        /\ schedPc' = "dispatch"
     \/ UNCHANGED <<feeds, toLaunch, schedPc>>
  /\ UNCHANGED <<posts, lastFeed, sameFeed, wg, taskPc, parsedFeed, fetchFailed,
                 itemIdx, newPostCount, followers, failedNow, counted>>
  /\ feedTable' = feedTable

\* a loop that returns when GetFeedsByPriority fails
SchedTickFailStops(table) ==
  /\ schedPc = "ticker"
  /\ tickPending
  /\ cycle < MaxCycles
  /\ cycle' = cycle + 1
  /\ tickPending' = FALSE
  /\ \/ /\ feeds' = table
        /\ toLaunch' \in GetFeedsByPriority'
        /\ schedPc' = "dispatch"
     \/ schedPc' = "stopped" /\ UNCHANGED <<feeds, toLaunch>>
  /\ UNCHANGED <<posts, lastFeed, sameFeed, wg, taskPc, parsedFeed, fetchFailed,
                 itemIdx, newPostCount, followers, failedNow, counted>>
  /\ feedTable' = feedTable

\* for range ticker.C: the next tick is taken once the previous cycle's
\* wg.Wait() has returned; GetFeedsByPriority fails (continue) or returns the
\* rows of the table
SchedTick(table) ==
  /\ schedPc = "ticker"
  /\ tickPending
  /\ cycle < MaxCycles
  /\ cycle' = cycle + 1
  /\ tickPending' = FALSE
  /\ \/ /\ feeds' = table
        /\ toLaunch' \in GetFeedsByPriority'
        /\ schedPc' = "dispatch"
     \/ UNCHANGED <<feeds, toLaunch, schedPc>>
  /\ UNCHANGED <<posts, lastFeed, sameFeed, wg, taskPc, parsedFeed, fetchFailed,
                 itemIdx, newPostCount, followers, failedNow, counted>>
  /\ feedTable' = feedTable

\* a dispatch loop that counts two tasks for a feed
SchedLaunchTwice ==
  /\ schedPc = "dispatch"
  /\ toLaunch # <<>>
  /\ \E s \in Sources :
       /\ taskPc[s] = "idle"
       /\ wg' = wg + 2
       /\ taskPc' = [taskPc EXCEPT ![s] = "fetch"]
       /\ schedPc' = IF \A t \in Sources \ {s} : taskPc[t] # "idle"
                       THEN "wait" ELSE "dispatch"
  /\ UNCHANGED <<feeds, toLaunch, tickPending, lastFeed, sameFeed, posts, cycle, parsedFeed,
                 fetchFailed, itemIdx, newPostCount, followers, failedNow, counted>>
  /\ feedTable' = feedTable

\* the rows of the slice the range loop has not reached: those whose goroutine
\* has not been started
Pending == SelectSeq(toLaunch, LAMBDA s : taskPc[s] = "idle")

\* for _, feed := range feeds { wg.Add(1); go s.scrapeFeed(db, wg, feed) }
SchedLaunch ==
  /\ schedPc = "dispatch"
  /\ Pending # <<>>
  /\ LET s == Head(Pending)
     IN /\ wg' = wg + 1
        /\ taskPc' = [taskPc EXCEPT ![s] = "fetch"]
  /\ schedPc' = IF Tail(Pending) = <<>> THEN "wait" ELSE "dispatch"
  /\ feeds' = IF Tail(Pending) = <<>> THEN NoRows ELSE feeds
  /\ UNCHANGED <<toLaunch, tickPending, lastFeed, sameFeed, posts, cycle, parsedFeed, fetchFailed, itemIdx,
                 newPostCount, followers, failedNow, counted>>
  /\ feedTable' = feedTable

\* a loop that does not wait for the cycle's goroutines
SchedWaitEarly ==
  /\ schedPc = "wait"
  /\ schedPc' = "ticker"
  /\ lastFeed' = [s \in Sources |->
                    IF taskPc[s] = "done" /\ ~fetchFailed[s]
                      THEN [items |-> parsedFeed[s], clean |-> failedNow[s] = {}]
                      ELSE NoLastFeed]
  /\ sameFeed' = [s \in Sources |-> "no"]
  /\ taskPc' = [s \in Sources |-> "idle"]
  /\ parsedFeed' = [s \in Sources |-> <<>>]
  /\ fetchFailed' = [s \in Sources |-> FALSE]
  /\ itemIdx' = [s \in Sources |-> 1]
  /\ newPostCount' = [s \in Sources |-> 0]
  /\ failedNow' = [s \in Sources |-> {}]
  /\ toLaunch' = <<>>
  /\ UNCHANGED <<feeds, posts, tickPending, cycle, wg, followers, counted>>
  /\ feedTable' = feedTable

\* wg.Wait() returns when the counter is zero; the cycle's goroutines and
\* their locals are gone
SchedWait ==
  /\ schedPc = "wait"
  /\ wg = 0
  /\ schedPc' = "ticker"
  /\ lastFeed' = [s \in Sources |->
                    IF taskPc[s] = "done" /\ ~fetchFailed[s]
                      THEN [items |-> parsedFeed[s], clean |-> failedNow[s] = {}]
                      ELSE NoLastFeed]
  /\ sameFeed' = [s \in Sources |-> "no"]
  /\ taskPc' = [s \in Sources |-> "idle"]
  /\ parsedFeed' = [s \in Sources |-> <<>>]
  /\ fetchFailed' = [s \in Sources |-> FALSE]
  /\ itemIdx' = [s \in Sources |-> 1]
  /\ newPostCount' = [s \in Sources |-> 0]
  /\ failedNow' = [s \in Sources |-> {}]
  /\ toLaunch' = <<>>
  /\ UNCHANGED <<feeds, posts, tickPending, cycle, wg, followers, counted>>
  /\ feedTable' = feedTable

\* defer wg.Done(): the task returns
WgDone(s) ==
  /\ wg' = wg - 1
  /\ taskPc' = [taskPc EXCEPT ![s] = "done"]

\* fetchFeed(feed.Url) returns a parsed feed
TaskFetchOk(s, items) ==
  /\ taskPc[s] = "fetch"
  /\ parsedFeed' = [parsedFeed EXCEPT ![s] = items]
  /\ taskPc' = [taskPc EXCEPT ![s] = "items"]
  /\ sameFeed' = [sameFeed EXCEPT ![s] =
                    IF items # lastFeed[s].items THEN "no"
                    ELSE IF lastFeed[s].clean THEN "clean" ELSE "dirty"]
  /\ lastFeed' = [lastFeed EXCEPT ![s] = NoLastFeed]
  /\ UNCHANGED <<feeds, tickPending, posts, schedPc, cycle, toLaunch, wg, fetchFailed,
                 itemIdx, newPostCount, followers, failedNow, counted>>
  /\ feedTable' = feedTable

\* a fetch failure that cancels the whole cycle
TaskFetchFailAborts(s) ==
  /\ taskPc[s] = "fetch"
  /\ fetchFailed' = [fetchFailed EXCEPT ![s] = TRUE]
  /\ wg' = 0
  /\ taskPc' = [t \in Sources |-> IF taskPc[t] = "idle" THEN "idle" ELSE "done"]
  /\ lastFeed' = [lastFeed EXCEPT ![s] = NoLastFeed]
  /\ UNCHANGED <<feeds, tickPending, sameFeed, posts, schedPc, cycle, toLaunch, parsedFeed,
                 itemIdx, newPostCount, followers, failedNow, counted>>
  /\ feedTable' = feedTable

\* a fetch failure that returns without wg.Done()
TaskFetchFailNoDone(s) ==
  /\ taskPc[s] = "fetch"
  /\ fetchFailed' = [fetchFailed EXCEPT ![s] = TRUE]
  /\ taskPc' = [taskPc EXCEPT ![s] = "done"]
  /\ lastFeed' = [lastFeed EXCEPT ![s] = NoLastFeed]
  /\ UNCHANGED <<feeds, tickPending, sameFeed, posts, schedPc, cycle, toLaunch, wg,
                 parsedFeed, itemIdx, newPostCount, followers, failedNow, counted>>
  /\ feedTable' = feedTable

\* fetchFeed returns an error: it is logged and the task returns
TaskFetchFail(s) ==
  /\ taskPc[s] = "fetch"
  /\ fetchFailed' = [fetchFailed EXCEPT ![s] = TRUE]
  /\ WgDone(s)
  /\ lastFeed' = [lastFeed EXCEPT ![s] = NoLastFeed]
  /\ UNCHANGED <<feeds, tickPending, sameFeed, posts, schedPc, cycle, toLaunch, parsedFeed,
                 itemIdx, newPostCount, followers, failedNow, counted>>
  /\ feedTable' = feedTable

\* db.CreatePost: INSERT INTO posts with a unique url; the results it can
\* have for url l: "ok", the unique violation "23505", or another failure
CreatePostResults(l) ==
  IF posts[l] = 0 THEN {"ok", "failed"} ELSE {"23505", "failed"}

\* a scrapeFeed that counts a failed insert as a new post
ClassifyErrorAsNew(r) ==
  IF r \in {"ok", "failed"} THEN "inserted" ELSE "conflict"

\* a scrapeFeed that counts an existing post as a new one
ClassifyConflictAsNew(r) ==
  IF r \in {"ok", "23505"} THEN "inserted" ELSE "error"

\* scrapeFeed's reading of errCreatePost: nil, pq code 23505, anything else
Classify(r) ==
  IF r = "ok" THEN "inserted"
  ELSE IF r = "23505" THEN "conflict"
  ELSE "error"

\* one iteration of `for _, item := range parsedFeed.Items`
TaskInsert(s) ==
  /\ taskPc[s] = "items"
  /\ itemIdx[s] <= Len(parsedFeed[s])
  /\ LET l == parsedFeed[s][itemIdx[s]]
     IN \E r \in CreatePostResults(l) :
          /\ posts' = [posts EXCEPT ![l] = IF r = "ok" THEN @ + 1 ELSE @]
          /\ newPostCount' =
               [newPostCount EXCEPT ![s] = IF Classify(r) = "inserted" THEN @ + 1 ELSE @]
          /\ failedNow' =
               [failedNow EXCEPT ![s] = IF Classify(r) = "error" THEN @ \cup {l} ELSE @]
          /\ counted' =
               [counted EXCEPT ![l] = IF Classify(r) = "inserted" THEN @ + 1 ELSE @]
  /\ itemIdx' = [itemIdx EXCEPT ![s] = @ + 1]
  /\ UNCHANGED <<feeds, tickPending, lastFeed, sameFeed, schedPc, cycle, toLaunch, wg, taskPc, parsedFeed,
                 fetchFailed, followers>>
  /\ feedTable' = feedTable

\* a scrapeFeed that can signal before its loop is over
TaskFinishEarly(s) ==
  /\ taskPc[s] = "items"
  /\ \/ /\ newPostCount[s] = 0
        /\ itemIdx[s] > Len(parsedFeed[s])
        /\ WgDone(s)
        /\ UNCHANGED followers
     \/ /\ newPostCount[s] > 0
        /\ itemIdx[s] > Len(parsedFeed[s])
        /\ WgDone(s)
        /\ UNCHANGED followers
     \/ /\ newPostCount[s] > 0
        /\ \E f \in SUBSET Users \ {{}} :
             followers' = [followers EXCEPT ![s] = f]
        /\ taskPc' = [taskPc EXCEPT ![s] = "send"]
        /\ UNCHANGED wg
  /\ UNCHANGED <<feeds, tickPending, lastFeed, sameFeed, posts, schedPc, cycle, toLaunch, parsedFeed,
                 fetchFailed, itemIdx, newPostCount, failedNow, counted>>
  /\ feedTable' = feedTable

\* a scrapeFeed that calls sendNewPostSignal whatever newPostCount is
TaskFinishAlwaysSignals(s) ==
  /\ taskPc[s] = "items"
  /\ itemIdx[s] > Len(parsedFeed[s])
  /\ \/ /\ WgDone(s)
        /\ UNCHANGED followers
     \/ /\ \E f \in SUBSET Users \ {{}} :
             followers' = [followers EXCEPT ![s] = f]
        /\ taskPc' = [taskPc EXCEPT ![s] = "send"]
        /\ UNCHANGED wg
  /\ UNCHANGED <<feeds, tickPending, lastFeed, sameFeed, posts, schedPc, cycle, toLaunch, parsedFeed,
                 fetchFailed, itemIdx, newPostCount, failedNow, counted>>
  /\ feedTable' = feedTable

\* a task that stamps its feed as fetched when its loop over the items ends
TaskFinishMarksFetched(s) ==
  /\ taskPc[s] = "items"
  /\ itemIdx[s] > Len(parsedFeed[s])
  /\ \/ /\ newPostCount[s] = 0
        /\ WgDone(s)
        /\ UNCHANGED followers
     \/ /\ newPostCount[s] > 0
        /\ WgDone(s)
        /\ UNCHANGED followers
     \/ /\ newPostCount[s] > 0
        /\ \E f \in SUBSET Users \ {{}} :
             followers' = [followers EXCEPT ![s] = f]
        /\ taskPc' = [taskPc EXCEPT ![s] = "send"]
        /\ UNCHANGED wg
  /\ UNCHANGED <<feeds, tickPending, lastFeed, sameFeed, posts, schedPc, cycle, toLaunch, parsedFeed,
                 fetchFailed, itemIdx, newPostCount, failedNow, counted>>
  /\ feedTable' = [feedTable EXCEPT ![s].updatedAt =
                     IF @ < MaxUpdatedAt THEN @ + 1 ELSE @]

\* a sendNewPostSignal that submits its map when it is empty too
TaskFinishEmptyAudience(s) ==
  /\ taskPc[s] = "items"
  /\ itemIdx[s] > Len(parsedFeed[s])
  /\ \/ /\ newPostCount[s] = 0
        /\ WgDone(s)
        /\ UNCHANGED followers
     \/ /\ newPostCount[s] > 0
        /\ WgDone(s)
        /\ UNCHANGED followers
     \/ /\ newPostCount[s] > 0
        /\ \E f \in SUBSET Users :
             followers' = [followers EXCEPT ![s] = f]
        /\ taskPc' = [taskPc EXCEPT ![s] = "send"]
        /\ UNCHANGED wg
  /\ UNCHANGED <<feeds, tickPending, lastFeed, sameFeed, posts, schedPc, cycle, toLaunch, parsedFeed,
                 fetchFailed, itemIdx, newPostCount, failedNow, counted>>
  /\ feedTable' = feedTable

\* after the loop: if newPostCount > 0, sendNewPostSignal looks the followers
\* up (an error or no follower: return) and builds the signals map
TaskFinish(s) ==
  /\ taskPc[s] = "items"
  /\ itemIdx[s] > Len(parsedFeed[s])
  /\ \/ /\ newPostCount[s] = 0
        /\ WgDone(s)
        /\ UNCHANGED followers
     \/ /\ newPostCount[s] > 0
        /\ WgDone(s)
        /\ UNCHANGED followers
     \/ /\ newPostCount[s] > 0
        /\ \E f \in SUBSET Users \ {{}} :
             followers' = [followers EXCEPT ![s] = f]
        /\ taskPc' = [taskPc EXCEPT ![s] = "send"]
        /\ UNCHANGED wg
  /\ UNCHANGED <<feeds, tickPending, lastFeed, sameFeed, posts, schedPc, cycle, toLaunch, parsedFeed,
                 fetchFailed, itemIdx, newPostCount, failedNow, counted>>
  /\ feedTable' = feedTable

\* s.Hub.SendSignal(signals) returns once Run has received the map
TaskSendSignal(s) ==
  /\ taskPc[s] = "send"
  /\ HubRecvSignal(followers[s], newPostCount[s])
  /\ nextBatch' = nextBatch
  /\ followers' = [followers EXCEPT ![s] = {}]
  /\ WgDone(s)
  /\ UNCHANGED <<feeds, tickPending, lastFeed, sameFeed, posts, schedPc, cycle, toLaunch, parsedFeed,
                 fetchFailed, itemIdx, newPostCount, failedNow, counted>>
  /\ feedTable' = feedTable

----------------------------------------------------------------------------
(***************************************************************************)
(* Auth handlers: register, login, logout, refresh                         *)
(***************************************************************************)
Accounts == 1..NumAccounts

\* auth.HashRefreshToken: the hex SHA-256 digest of the token string
HashRefreshToken(t) == <<"sha256", t>>

\* DELETE FROM refresh_tokens WHERE user_id = $1
DeleteRefreshToken(rows, a) == {r \in rows : r.userID # a}

\* INSERT INTO refresh_tokens (...), expires_at seven days ahead
CreateRefreshToken(rows, a, t) ==
  rows \cup {[userID |-> a, tokenHash |-> HashRefreshToken(t), expired |-> FALSE]}

\* SELECT * FROM refresh_tokens WHERE token_hash = $1
GetRefreshTokenByHash(rows, h) == {r \in rows : r.tokenHash = h}

\* a rotation that stores the new token and deletes nothing
generateRefreshTokenOnly(rows, a, t) == CreateRefreshToken(rows, a, t)

\* deleteAndGenerateRefreshTokenFromDB, committed: within one transaction the
\* user's rows are deleted and the new token's row is inserted
deleteAndGenerateRefreshTokenFromDB(rows, a, t) ==
  CreateRefreshToken(DeleteRefreshToken(rows, a), a, t)

\* the tokens whose rows user a has
StoredTokens(a) ==
  {t \in 1..minted :
     \E r \in refreshTokens : r.userID = a /\ r.tokenHash = HashRefreshToken(t)}

\* an empty database, no request served
NewAuth ==
  /\ users = {}
  /\ refreshTokens = {}
  /\ minted = 0
  /\ spent = {}
  /\ authLog = [op |-> "none", token |-> 0, status |-> 0]

\* HandlerRegister: CreateUser (400 on a duplicate email), then a first
\* refresh token stored by a plain CreateRefreshToken (500 if that fails)
HandlerRegister(a) ==
  \/ /\ a \in users
     /\ authLog' = [op |-> "register", token |-> 0, status |-> 400]
     /\ UNCHANGED <<users, refreshTokens, minted, spent>>
  \/ /\ a \notin users
     /\ users' = users \cup {a}
     /\ \/ /\ minted < MaxTokens
           /\ minted' = minted + 1
           /\ refreshTokens' = CreateRefreshToken(refreshTokens, a, minted + 1)
           /\ authLog' = [op |-> "register", token |-> minted + 1, status |-> 201]
        \/ /\ authLog' = [op |-> "register", token |-> 0, status |-> 500]
           /\ UNCHANGED <<refreshTokens, minted>>
     /\ spent' = spent

\* HandlerLogin: 401 for an unknown email or a wrong password; otherwise the
\* rotation, whose failure is answered 500 after the rollback
HandlerLogin(a) ==
  \/ /\ authLog' = [op |-> "login", token |-> 0, status |-> 401]
     /\ UNCHANGED <<users, refreshTokens, minted, spent>>
  \/ /\ a \in users
     /\ authLog' = [op |-> "login", token |-> 0, status |-> 500]
     /\ UNCHANGED <<users, refreshTokens, minted, spent>>
  \/ /\ a \in users
     /\ minted < MaxTokens
     /\ minted' = minted + 1
     /\ refreshTokens' =
          deleteAndGenerateRefreshTokenFromDB(refreshTokens, a, minted + 1)
     /\ spent' = spent \cup StoredTokens(a)
     /\ authLog' = [op |-> "login", token |-> minted + 1, status |-> 200]
     /\ users' = users

\* HandlerLogout of an authenticated user: DeleteRefreshToken, 500 if it fails
HandlerLogout(a) ==
  /\ a \in users
  /\ \/ /\ refreshTokens' = DeleteRefreshToken(refreshTokens, a)
        /\ spent' = spent \cup StoredTokens(a)
        /\ authLog' = [op |-> "logout", token |-> 0, status |-> 200]
     \/ /\ authLog' = [op |-> "logout", token |-> 0, status |-> 500]
        /\ UNCHANGED <<refreshTokens, spent>>
  /\ UNCHANGED <<users, minted>>

\* HandlerRefreshToken with token t in the body (0: a string never issued):
\* 500 when no row has its hash, 400 when the row is expired, otherwise the
\* rotation for the row's user, whose failure is answered 500
HandlerRefreshToken(t) ==
  LET found == GetRefreshTokenByHash(refreshTokens, HashRefreshToken(t))
  IN \/ /\ found = {}
        /\ authLog' = [op |-> "refresh", token |-> t, status |-> 500]
        /\ UNCHANGED <<users, refreshTokens, minted, spent>>
     \/ \E r \in found :
          \/ /\ r.expired
             /\ authLog' = [op |-> "refresh", token |-> t, status |-> 400]
             /\ UNCHANGED <<users, refreshTokens, minted, spent>>
          \/ /\ ~r.expired
             /\ authLog' = [op |-> "refresh", token |-> t, status |-> 500]
             /\ UNCHANGED <<users, refreshTokens, minted, spent>>
          \/ /\ ~r.expired
             /\ minted < MaxTokens
             /\ minted' = minted + 1
             /\ refreshTokens' =
                  deleteAndGenerateRefreshTokenFromDB(refreshTokens, r.userID,
                                                      minted + 1)
             /\ spent' = spent \cup StoredTokens(r.userID)
             /\ authLog' = [op |-> "refresh", token |-> t, status |-> 200]
             /\ users' = users

\* time goes past a stored token's expires_at
TokenExpires(r) ==
  /\ r \in refreshTokens
  /\ ~r.expired
  /\ refreshTokens' = (refreshTokens \ {r}) \cup {[r EXCEPT !.expired = TRUE]}
  /\ UNCHANGED <<users, minted, spent, authLog>>

----------------------------------------------------------------------------
(***************************************************************************)
(* Specifications                                                          *)
(***************************************************************************)

\* the bucket before any request arrives, for the specifications that leave
\* the rate limiter alone
BucketIdle == NewTokenBucket /\ capacity = 1 /\ refillRate = 0

\* the scraper before its first tick over an empty posts table, for the
\* specifications that leave the scraper alone
ScraperIdle ==
  /\ feeds = NoRows
  /\ posts = [l \in Links |-> 0]
  /\ ScraperAtStart
  /\ TableUntracked

\* the middleware with its limiter set and no request, for the specifications
\* that leave the middleware alone
GateIdle == limiterSet = TRUE /\ GateAtStart

InitBucket == NewTokenBucket /\ GateIdle /\ NewHub /\ ScraperIdle /\ NewSession /\ NewAuth

InitHub == BucketIdle /\ GateIdle /\ NewHub /\ ScraperIdle /\ NewSession /\ NewAuth

\* every tick of SpecScraper reads a table of any content (SchedTick under
\* NextScraper), so the table itself is not followed there
InitScraper ==
  BucketIdle /\ GateIdle /\ NewHub /\ NewScraper /\ NewSession /\ NewAuth /\ TableUntracked

\* the process with or without InitRateLimiter having run
InitGate ==
  /\ limiterSet \in BOOLEAN
  /\ NewTokenBucket /\ GateAtStart /\ NewHub /\ ScraperIdle /\ NewSession /\ NewAuth

NextBucket ==
  \/ \E p \in Callers : ConsumeCall(p) /\ UNCHANGED <<authVars, auditVars, keepVars, gateVars, hubVars, scraperVars>>
  \/ \E p \in Callers : ConsumeLock(p) /\ UNCHANGED <<authVars, auditVars, keepVars, gateVars, hubVars, scraperVars>>
  \/ \E p \in Callers : ConsumeRefill(p) /\ UNCHANGED <<authVars, auditVars, keepVars, gateVars, hubVars, scraperVars>>
  \/ \E p \in Callers : ConsumeDec(p) /\ UNCHANGED <<authVars, auditVars, keepVars, gateVars, hubVars, scraperVars>>
  \/ \E p \in Callers : ConsumeUnlock(p) /\ UNCHANGED <<authVars, auditVars, keepVars, gateVars, hubVars, scraperVars>>
  \/ Tick /\ UNCHANGED <<authVars, auditVars, keepVars, gateVars, hubVars, scraperVars>>

SpecBucket == InitBucket /\ [][NextBucket]_vars

\* the requests going through the RateLimit handler
NextGate ==
  \/ \E p \in Callers : RateLimitPass(p) /\ UNCHANGED <<authVars, auditVars, keepVars, bucketVars, hubVars, scraperVars>>
  \/ \E p \in Callers : RateLimitEnter(p) /\ UNCHANGED <<authVars, auditVars, keepVars, hubVars, scraperVars>>
  \/ \E p \in Callers : RateLimitLock(p) /\ UNCHANGED <<authVars, auditVars, keepVars, hubVars, scraperVars>>
  \/ \E p \in Callers : RateLimitRefill(p) /\ UNCHANGED <<authVars, auditVars, keepVars, hubVars, scraperVars>>
  \/ \E p \in Callers : RateLimitDec(p) /\ UNCHANGED <<authVars, auditVars, keepVars, hubVars, scraperVars>>
  \/ \E p \in Callers : RateLimitReturn(p) /\ UNCHANGED <<authVars, auditVars, keepVars, hubVars, scraperVars>>
  \/ \E p \in Callers : RateLimitForward(p) /\ UNCHANGED <<authVars, auditVars, keepVars, bucketVars, hubVars, scraperVars>>
  \/ \E p \in Callers : RateLimitReject(p) /\ UNCHANGED <<authVars, auditVars, keepVars, bucketVars, hubVars, scraperVars>>
  \/ Tick /\ UNCHANGED <<authVars, auditVars, keepVars, gateVars, hubVars, scraperVars>>

SpecGate == InitGate /\ [][NextGate]_vars

\* the producers of SpecHub: any goroutine calling hub.SendSignal with a
\* non-empty map
ProducerSubmit ==
  /\ nextBatch <= MaxBatches
  /\ nextBatch' = nextBatch + 1
  /\ \E batch \in SUBSET Users : HubRecvSignal(batch, nextBatch)

\* a panic ends the process: nothing runs after it
Alive == ~panicked

NextHub ==
  \/ \E c \in Clients, u \in Users : Alive /\ Connect(c, u) /\ UNCHANGED <<authVars, auditVars, keepVars, bucketVars, gateVars, scraperVars>>
  \/ \E c \in Clients : Alive /\ HubRegister(c) /\ UNCHANGED <<authVars, auditVars, keepVars, bucketVars, gateVars, scraperVars>>
  \/ \E c \in Clients : Alive /\ HubUnregister(c) /\ UNCHANGED <<authVars, auditVars, keepVars, bucketVars, gateVars, scraperVars>>
  \/ Alive /\ ProducerSubmit /\ UNCHANGED <<authVars, auditVars, keepVars, bucketVars, gateVars, scraperVars>>
  \/ \E u \in Users : Alive /\ HubSignalStep(u) /\ UNCHANGED <<authVars, auditVars, keepVars, bucketVars, gateVars, scraperVars>>
  \/ \E c \in Clients : Alive /\ ReadErr(c) /\ UNCHANGED <<authVars, auditVars, keepVars, bucketVars, gateVars, scraperVars>>
  \/ \E c \in Clients : Alive /\ PumpWrite(c) /\ UNCHANGED <<authVars, auditVars, keepVars, bucketVars, gateVars, scraperVars>>
  \/ \E c \in Clients : Alive /\ PumpWriteFail(c) /\ UNCHANGED <<authVars, auditVars, keepVars, bucketVars, gateVars, scraperVars>>
  \/ \E c \in Clients : Alive /\ PumpClosed(c) /\ UNCHANGED <<authVars, auditVars, keepVars, bucketVars, gateVars, scraperVars>>
  \/ \E c \in Clients : Alive /\ PumpPing(c) /\ UNCHANGED <<authVars, auditVars, keepVars, bucketVars, gateVars, scraperVars>>

SpecHub == InitHub /\ [][NextHub]_vars

\* Run takes a step: it receives a client from hub.register or
\* hub.unregister, or goes one iteration further over the map it received
HubStep ==
  Alive /\ \/ \E c \in Clients : HubRegister(c)
           \/ \E c \in Clients : HubUnregister(c)
           \/ \E u \in Users : HubSignalStep(u)
        /\ UNCHANGED <<authVars, auditVars, keepVars, bucketVars, gateVars, scraperVars>>

\* WritePump of c takes what its select offers: a queued payload or the close
PumpStep(c) ==
  Alive /\ (PumpWrite(c) \/ PumpWriteFail(c) \/ PumpClosed(c))
        /\ UNCHANGED <<authVars, auditVars, keepVars, bucketVars, gateVars, scraperVars>>

\* SpecHub with the goroutine scheduler's guarantee that a WritePump whose
\* select has a ready case runs
SpecHubFair == SpecHub /\ \A c \in Clients : WF_vars(PumpStep(c))

\* one registered session and its peer, with nothing submitted to it
InitKeepalive == BucketIdle /\ GateIdle /\ NewHub /\ ScraperIdle /\ NewSession /\ NewAuth

NextKeepalive ==
  \/ PumpPingSend /\ UNCHANGED <<authVars, auditVars, bucketVars, gateVars, hubVars, scraperVars>>
  \/ PumpPingOnClosed /\ UNCHANGED <<authVars, auditVars, bucketVars, gateVars, hubVars, scraperVars>>
  \/ PongHandler /\ UNCHANGED <<authVars, auditVars, bucketVars, gateVars, hubVars, scraperVars>>
  \/ ReadPumpReturns /\ UNCHANGED <<authVars, auditVars, bucketVars, gateVars, hubVars, scraperVars>>
  \/ ClockTick /\ UNCHANGED <<authVars, auditVars, bucketVars, gateVars, hubVars, scraperVars>>

SpecKeepalive == InitKeepalive /\ [][NextKeepalive]_vars

\* the scraper with the hub it signals; no websocket session is open
NextScraper ==
  \/ Alive /\ TimerFire /\ UNCHANGED <<authVars, auditVars, keepVars, bucketVars, gateVars, hubVars>>
  \/ \E table \in FeedTables :
       Alive /\ SchedTick(table) /\ UNCHANGED <<authVars, auditVars, keepVars, bucketVars, gateVars, hubVars>>
  \/ Alive /\ SchedLaunch /\ UNCHANGED <<authVars, auditVars, keepVars, bucketVars, gateVars, hubVars>>
  \/ Alive /\ SchedWait /\ UNCHANGED <<authVars, auditVars, keepVars, bucketVars, gateVars, hubVars>>
  \/ \E s \in Sources, items \in FeedLists :
       Alive /\ TaskFetchOk(s, items) /\ UNCHANGED <<authVars, auditVars, keepVars, bucketVars, gateVars, hubVars>>
  \/ \E s \in Sources : Alive /\ TaskFetchFail(s) /\ UNCHANGED <<authVars, auditVars, keepVars, bucketVars, gateVars, hubVars>>
  \/ \E s \in Sources : Alive /\ TaskInsert(s) /\ UNCHANGED <<authVars, auditVars, keepVars, bucketVars, gateVars, hubVars>>
  \/ \E s \in Sources : Alive /\ TaskFinish(s) /\ UNCHANGED <<authVars, auditVars, keepVars, bucketVars, gateVars, hubVars>>
  \/ \E s \in Sources : Alive /\ TaskSendSignal(s) /\ UNCHANGED <<authVars, auditVars, keepVars, bucketVars, gateVars>>
  \/ \E u \in Users : Alive /\ HubSignalStep(u) /\ UNCHANGED <<authVars, auditVars, keepVars, bucketVars, gateVars, scraperVars>>

SpecScraper == InitScraper /\ [][NextScraper]_vars

\* the scraper over one feeds table, followed through the cycles: every tick
\* queries the table as it is then; feeds of at most MaxShort items
MaxShort == 1

ShortFeedLists == {items \in FeedLists : Len(items) <= MaxShort}

InitSources ==
  /\ BucketIdle /\ GateIdle /\ NewHub /\ NewScraper /\ NewSession /\ NewAuth
  /\ feedTable \in FeedTables
  /\ tableAtTick = feedTable

NextSources ==
  \/ Alive /\ TimerFire /\ UNCHANGED <<authVars, auditVars, keepVars, bucketVars, gateVars, hubVars>>
  \/ /\ Alive /\ SchedTick(feedTable)
     /\ tableAtTick' = IF schedPc' = "dispatch" THEN feedTable ELSE NoRows
     /\ UNCHANGED <<authVars, keepVars, bucketVars, gateVars, hubVars>>
  \/ Alive /\ SchedLaunch /\ UNCHANGED <<authVars, auditVars, keepVars, bucketVars, gateVars, hubVars>>
  \/ Alive /\ SchedWait /\ UNCHANGED <<authVars, auditVars, keepVars, bucketVars, gateVars, hubVars>>
  \/ \E s \in Sources, items \in ShortFeedLists :
       Alive /\ TaskFetchOk(s, items) /\ UNCHANGED <<authVars, auditVars, keepVars, bucketVars, gateVars, hubVars>>
  \/ \E s \in Sources : Alive /\ TaskFetchFail(s) /\ UNCHANGED <<authVars, auditVars, keepVars, bucketVars, gateVars, hubVars>>
  \/ \E s \in Sources : Alive /\ TaskInsert(s) /\ UNCHANGED <<authVars, auditVars, keepVars, bucketVars, gateVars, hubVars>>
  \/ \E s \in Sources : Alive /\ TaskFinish(s) /\ UNCHANGED <<authVars, auditVars, keepVars, bucketVars, gateVars, hubVars>>
  \/ \E s \in Sources : Alive /\ TaskSendSignal(s) /\ UNCHANGED <<authVars, auditVars, keepVars, bucketVars, gateVars>>
  \/ \E u \in Users : Alive /\ HubSignalStep(u) /\ UNCHANGED <<authVars, auditVars, keepVars, bucketVars, gateVars, scraperVars>>

SpecSources == InitSources /\ [][NextSources]_vars

\* StartScraping between a tick and the return to the ticker: the dispatch
\* loop and wg.Wait()
SchedStep ==
  Alive /\ (SchedLaunch \/ SchedWait)
        /\ UNCHANGED <<authVars, auditVars, keepVars, bucketVars, gateVars, hubVars>>

\* scrapeFeed of s up to its return or its call of SendSignal; fetchFeed and
\* the storage calls return
TaskStep(s) ==
  Alive /\ \/ \E items \in ShortFeedLists : TaskFetchOk(s, items)
           \/ TaskFetchFail(s)
           \/ TaskInsert(s)
           \/ TaskFinish(s)
        /\ UNCHANGED <<authVars, auditVars, keepVars, bucketVars, gateVars, hubVars>>

\* SendSignal of s's task is taken by Run
SubmitStep(s) ==
  Alive /\ TaskSendSignal(s) /\ UNCHANGED <<authVars, auditVars, keepVars, bucketVars, gateVars>>

\* SpecSources with the goroutine scheduler's guarantee that a goroutine that
\* can run does run: StartScraping, every scrapeFeed, and Run
SpecSourcesFair ==
  /\ SpecSources
  /\ WF_vars(SchedStep)
  /\ \A s \in Sources : WF_vars(TaskStep(s)) /\ WF_vars(SubmitStep(s))
  /\ WF_vars(HubStep)

\* the auth handlers, one request at a time
InitAuth ==
  /\ BucketIdle /\ GateIdle /\ NewHub /\ ScraperIdle /\ NewSession /\ NewAuth

AuthRows ==
  [userID : Accounts, tokenHash : {HashRefreshToken(t) : t \in 1..MaxTokens},
   expired : BOOLEAN]

NextAuth ==
  \/ \E a \in Accounts :
       HandlerRegister(a) /\ UNCHANGED <<auditVars, keepVars, bucketVars, gateVars, hubVars, scraperVars>>
  \/ \E a \in Accounts :
       HandlerLogin(a) /\ UNCHANGED <<auditVars, keepVars, bucketVars, gateVars, hubVars, scraperVars>>
  \/ \E a \in Accounts :
       HandlerLogout(a) /\ UNCHANGED <<auditVars, keepVars, bucketVars, gateVars, hubVars, scraperVars>>
  \/ \E t \in 0..minted :
       HandlerRefreshToken(t) /\ UNCHANGED <<auditVars, keepVars, bucketVars, gateVars, hubVars, scraperVars>>
  \/ \E r \in AuthRows :
       TokenExpires(r) /\ UNCHANGED <<auditVars, keepVars, bucketVars, gateVars, hubVars, scraperVars>>

SpecAuth == InitAuth /\ [][NextAuth]_vars

----------------------------------------------------------------------------
(***************************************************************************)
(* Properties of the hub                                                   *)
(***************************************************************************)

Range(q) == {q[i] : i \in 1..Len(q)}

IsPrefix(q, r) == Len(q) <= Len(r) /\ \A i \in 1..Len(q) : q[i] = r[i]

\* the step in which Run ranges over user u of the current batch
Ranged(u) == hubPc = "signal" /\ u \in hubTodo /\ u \notin hubTodo'

\* C7: when Run ranges over an identity with no registered connection, the
\* registry, every send queue and every task are left as they were, and
\* nothing panics.
C7_UnknownNoop ==
  [][\A u \in Users :
       (Ranged(u) /\ clients[u] = NoClient)
         => /\ clients' = clients
            /\ send' = send
            /\ sendClosed' = sendClosed
            /\ clientPc' = clientPc
            /\ pumpPc' = pumpPc
            /\ ~panicked']_vars

\* C7 witness: in the batch being ranged over, a user with no connection has
\* been passed (none of its sessions was cut off by this batch) while another
\* user's connection is registered and open.
C7_UnknownRanged ==
  /\ hubPc = "signal"
  /\ ~panicked
  /\ \E u \in signals \ hubTodo :
       /\ clients[u] = NoClient
       /\ \A c \in Clients : userID[c] = u => kickedAt[c] # hubPayload
       /\ \E v \in Users \ {u} : clients[v] # NoClient /\ ~sendClosed[clients[v]]

\* C8: when Run ranges over a registered identity whose queue is full, that
\* connection is removed and its queue closed, every other connection keeps
\* its entry and its queue, the rest of the batch is still to be ranged over,
\* and a registered identity with room in its queue gets the payload.
C8_OverflowIsolated ==
  [][\A u \in Users :
       (Ranged(u) /\ clients[u] # NoClient)
         => LET c == clients[u]
            IN /\ ~panicked'
               /\ hubTodo' = hubTodo \ {u}
               /\ \A v \in Users \ {u} : clients'[v] = clients[v]
               /\ \A d \in Clients \ {c} :
                    /\ sendClosed'[d] = sendClosed[d]
                    /\ send'[d] = send[d]
               /\ clientPc' = clientPc /\ pumpPc' = pumpPc
               /\ IF Len(send[c]) = SendCap
                    THEN /\ clients'[u] = NoClient
                         /\ sendClosed'[c]
                         /\ send'[c] = send[c]
                    ELSE /\ clients'[u] = c
                         /\ ~sendClosed'[c]
                         /\ send'[c] = Append(send[c], hubPayload)]_vars

\* C8 witness: one batch cut off a connection whose queue was full and put
\* its payload on the queue of another connection, which is still registered
\* and open.
C8_KickedAndServed ==
  \E c, d \in Clients :
    /\ c # d
    /\ kickedAt[c] # 0 /\ sendClosed[c] /\ clients[userID[c]] = NoClient
    /\ userID[d] # 0 /\ clients[userID[d]] = d /\ ~sendClosed[d]
    /\ kickedAt[c] \in Range(enq[d])

\* C9 as stated: once a connection that was cut off with all its payloads
\* still queued has been torn down, either all of them or none was delivered.
C9_AllOrNothing ==
  \A c \in Clients :
    (kickedAt[c] # 0 /\ Len(enq[c]) = SendCap
       /\ pumpPc[c] \in {"closed", "failed"})
      => delivered[c] = enq[c] \/ delivered[c] = <<>>

\* C9 amended: a queue never holds more than SendCap payloads; a connection
\* is cut off for overflow only by a payload submitted when SendCap earlier
\* ones were queued, and that payload is not enqueued; what was queued is
\* then delivered in enqueue order without repetition: all of it when the pump
\* ends by seeing the queue closed, a prefix when a transport write fails.
C9_QueueBoundary ==
  \A c \in Clients :
    /\ Len(send[c]) <= SendCap
    /\ IsPrefix(delivered[c], enq[c])
    /\ kickedAt[c] # 0 =>
         /\ sendClosed[c]
         /\ Len(enq[c]) >= SendCap
         /\ \A i \in 1..Len(enq[c]) : enq[c][i] < kickedAt[c]
    /\ pumpPc[c] = "closed" => delivered[c] = enq[c] /\ send[c] = <<>>

\* C9 witness: SendCap payloads were queued with none dequeued, the next one
\* cut the connection off, and the pump then delivered all of them and ended.
C9_DrainedAfterKick ==
  \E c \in Clients :
    /\ kickedAt[c] # 0
    /\ Len(enq[c]) = SendCap
    /\ pumpPc[c] = "closed"
    /\ delivered[c] = enq[c]

\* C10: the registry changes only in a step of Run (a Register, an Unregister
\* or one iteration over a batch), and Run takes no new operation while it
\* is ranging over a batch.
C10_SingleOwner ==
  [][/\ clients' # clients =>
          \/ \E c \in Clients : HubRegister(c)
          \/ \E c \in Clients : HubUnregister(c)
          \/ \E u \in Users : HubSignalStep(u)
     /\ hubPc = "signal" =>
          /\ nextBatch' = nextBatch
          /\ \A c \in Clients :
               clientPc[c] \in {"registering", "unregistering"}
                 => clientPc'[c] = clientPc[c]]_vars

\* C10 witness: a read task has handed off its Unregister and waits, its
\* entry still in the registry, while Run is busy ranging over a batch.
C10_HandOffPending ==
  \E c \in Clients :
    /\ clientPc[c] = "unregistering"
    /\ clients[userID[c]] = c
    /\ hubPc = "signal"

\* the step in which Run takes Register(c)
Registers(c) == clientPc[c] = "registering" /\ clientPc'[c] = "reading"

\* the step in which Run takes Unregister(c)
Unregisters(c) == clientPc[c] = "unregistering" /\ clientPc'[c] = "exited"

\* C11: Run's Register(c) routes c's identity to c and touches no queue, no
\* other entry and no other connection's tasks; a payload is enqueued only on
\* the connection the registry routes to; a connection the registry has
\* stopped routing to is never routed to again.
C11_ReRegisterRoutes ==
  [][/\ \A c \in Clients :
          Registers(c)
            => /\ clients'[userID[c]] = c
               /\ \A v \in Users \ {userID[c]} : clients'[v] = clients[v]
               /\ send' = send /\ sendClosed' = sendClosed
               /\ \A d \in Clients \ {c} :
                    pumpPc'[d] = pumpPc[d] /\ clientPc'[d] = clientPc[d]
               /\ ~panicked'
     /\ \A c \in Clients :
          enq'[c] # enq[c] => (userID[c] # 0 /\ clients[userID[c]] = c)
     /\ \A c \in Clients :
          (clientPc[c] \notin {"new", "registering"} /\ clients[userID[c]] # c)
            => clients'[userID[c]] # c]_vars

\* C11 witness: two live connections of one identity; the registry routes to
\* the second; both got payloads, the second only later ones than the first;
\* the first is still open with its pump and reader running.
C11_Rerouted ==
  \E c1, c2 \in Clients :
    /\ c1 # c2 /\ userID[c1] # 0 /\ userID[c1] = userID[c2]
    /\ clients[userID[c2]] = c2
    /\ clientPc[c1] = "reading" /\ pumpPc[c1] = "running" /\ ~sendClosed[c1]
    /\ enq[c1] # <<>> /\ enq[c2] # <<>>
    /\ \A i \in 1..Len(enq[c1]) : \A j \in 1..Len(enq[c2]) : enq[c1][i] < enq[c2][j]

\* the pump of c has returned
PumpEnded(c) == pumpPc[c] \in {"closed", "failed"}

\* C12: Run's Unregister(c), when the registry routes c's identity to c,
\* removes that entry and closes c's queue, leaving every other entry and
\* queue alone; when the identity has no entry it changes no entry and no
\* queue; and the pump of a connection whose queue is closed ends.
C12_Unregister ==
  /\ [][\A c \in Clients :
          Unregisters(c)
            => /\ clients[userID[c]] = c
                   => /\ clients'[userID[c]] = NoClient
                      /\ sendClosed'[c]
                      /\ ~panicked'
                      /\ send' = send
                      /\ \A v \in Users \ {userID[c]} : clients'[v] = clients[v]
                      /\ \A d \in Clients \ {c} : sendClosed'[d] = sendClosed[d]
               /\ clients[userID[c]] = NoClient
                   => /\ clients' = clients
                      /\ send' = send
                      /\ sendClosed' = sendClosed
                      /\ ~panicked']_vars
  /\ \A c \in Clients : sendClosed[c] ~> (PumpEnded(c) \/ panicked)

\* C12 witness: the only session there was has been unregistered while it
\* was the registered one, and its pump has seen the closed queue and ended.
C12_PumpReleased ==
  \E c \in Clients :
    /\ clientPc[c] = "exited" /\ kickedAt[c] = 0
    /\ \A d \in Clients \ {c} : clientPc[d] = "new"
    /\ clients[userID[c]] = NoClient
    /\ sendClosed[c] /\ pumpPc[c] = "closed"

\* C13 as stated: the registry stops routing to a connection only when Run
\* takes that connection's own Unregister, when its own queue overflows, or
\* when a Register for its identity replaces it.
C13_OwnReasonsOnly ==
  [][\A c \in Clients :
       (userID[c] # 0 /\ clients[userID[c]] = c /\ clients'[userID[c]] # c)
         => \/ Unregisters(c)
            \/ kickedAt'[c] # kickedAt[c]
            \/ \E d \in Clients \ {c} : Registers(d) /\ userID[d] = userID[c]]_vars

\* C18: what a pump has written is a prefix of what Run enqueued for that
\* connection, and while the pump runs the rest is exactly the queue: nothing
\* is reordered, repeated or skipped.
C18_Fifo ==
  \A c \in Clients :
    /\ IsPrefix(delivered[c], enq[c])
    /\ pumpPc[c] \in {"none", "running"} => enq[c] = delivered[c] \o send[c]

\* C18 witness: a pump has written SendCap payloads, the first SendCap that
\* were enqueued, while a later one is still queued.
C18_DeliveredInOrder ==
  \E c \in Clients :
    /\ Len(delivered[c]) = SendCap
    /\ Len(enq[c]) > SendCap
    /\ IsPrefix(delivered[c], enq[c])
    /\ send[c] # <<>>

\* C27: a payload is put on the queue of connection c only by an iteration
\* of Run over an identity the registry routes to c, and it goes to the back;
\* a queue is closed only by Run, in its unregister case or in an iteration
\* over a batch; a payload leaves the queue of c only from the front and only
\* by a step of c's own WritePump; every other queue is left as it is.
C27_QueueOwnership ==
  [][\A c \in Clients :
       /\ Len(send'[c]) > Len(send[c])
            => /\ \E u \in Users : clients[u] = c /\ HubSignalStep(u)
               /\ send'[c] = Append(send[c], hubPayload)
       /\ sendClosed'[c] # sendClosed[c]
            => \/ \E u \in Users : HubSignalStep(u)
               \/ \E d \in Clients : HubUnregister(d)
       /\ Len(send'[c]) < Len(send[c])
            => /\ PumpWrite(c) \/ PumpWriteFail(c)
               /\ send'[c] = Tail(send[c])
               /\ \A d \in Clients \ {c} : send'[d] = send[d]
       /\ Len(send'[c]) = Len(send[c]) => send'[c] = send[c]]_vars

\* C27 witness: Run put two payloads on a connection's queue and then closed
\* it, and the connection's pump has taken the first of them.
C27_EnqueuedClosedDrained ==
  \E c \in Clients :
    /\ ~panicked
    /\ Len(enq[c]) >= 2 /\ sendClosed[c]
    /\ Len(delivered[c]) >= 1 /\ Len(send[c]) = Len(enq[c]) - 1

----------------------------------------------------------------------------
(***************************************************************************)
(* Properties of the token bucket                                          *)
(***************************************************************************)

\* the calls of the log that returned true
Granted == {i \in 1..Len(log) : log[i].ok}

\* the requests of the log for which Consume returned r
Served(r) == {i \in 1..Len(reqLog) : reqLog[i].consumed = r}

\* C20: a request for which Consume returned true was forwarded exactly once
\* and not rejected; one for which it returned false was rejected and never
\* forwarded; with no limiter every request was forwarded once, Consume was
\* never called and the bucket is untouched; with a limiter no request
\* bypasses Consume, and no more requests were admitted than Consume granted.
C20_AdmissionGate ==
  /\ \A i \in Served("true") : reqLog[i].forwarded = 1 /\ ~reqLog[i].rejected
  /\ \A i \in Served("false") : reqLog[i].forwarded = 0 /\ reqLog[i].rejected
  /\ \A i \in Served("none") : reqLog[i].forwarded = 1 /\ ~reqLog[i].rejected
  /\ ~limiterSet => /\ Served("none") = 1..Len(reqLog)
                    /\ log = <<>>
                    /\ tokens = capacity * Scale
  /\ limiterSet => /\ Served("none") = {}
                   /\ Cardinality(Served("true")) <= Cardinality(Granted)
                   /\ Cardinality(Served("false")) <= Len(log) - Cardinality(Granted)

\* C20 witness: with a limiter, one request was admitted and forwarded and
\* another was rejected and not forwarded.
C20_AdmittedAndRejected ==
  /\ limiterSet
  /\ Served("true") # {}
  /\ Served("false") # {}

\* C1: the token count is always within [0, capacity], whatever the elapsed
\* times between Consume calls, long idle periods included.
C1_TokensInRange == 0 <= tokens /\ tokens <= capacity * Scale

\* C1 witness: a bucket of capacity 1 was emptied, stayed idle long enough to
\* earn more than its capacity, and the next Consume found it capped at 1.
C1_IdleCapped ==
  /\ capacity = 1 /\ refillRate = MaxRate
  /\ Len(log) = 2 /\ log[1].ok /\ log[2].ok
  /\ (log[2].at - log[1].at) * refillRate > capacity * Scale
  /\ tokens = 0

\* C2: with no time elapsed since the bucket was created, the first
\* `capacity` calls return true and every later one returns false.
C2_BurstBound ==
  \A i \in 1..Len(log) : log[i].at = 0 => (log[i].ok <=> i <= capacity)

\* C2 witness: the largest bucket gave out its whole burst and rejected the
\* next call, all at the creation instant.
C2_BurstExhausted ==
  /\ capacity = MaxCap
  /\ Len(log) = capacity + 1
  /\ log[capacity + 1].at = 0
  /\ ~log[capacity + 1].ok

\* C3: after a rejected call, a call made exactly 1/refillRate later returns
\* true, and a further call with no more elapsed time returns false.
C3_RefillOne ==
  \A i \in 1..(Len(log) - 1) :
    (~log[i].ok /\ (log[i + 1].at - log[i].at) * refillRate = Scale)
      => /\ log[i + 1].ok
         /\ (i + 2 <= Len(log) /\ log[i + 2].at = log[i + 1].at) => ~log[i + 2].ok

\* C3 witness: rejected, granted 1/refillRate later, rejected again at once.
C3_RefilledOnce ==
  \E i \in 1..(Len(log) - 2) :
    /\ ~log[i].ok
    /\ (log[i + 1].at - log[i].at) * refillRate = Scale
    /\ log[i + 1].ok
    /\ log[i + 2].at = log[i + 1].at /\ ~log[i + 2].ok

\* C4: while no refill accrues, concurrent callers are granted exactly
\* min(calls, capacity) tokens and every grant is one decrement of the count.
C4_ConcurrentAtomic ==
  (now = 0 \/ refillRate = 0) =>
    /\ Cardinality(Granted) = Min(Len(log), capacity)
    /\ tokens = (capacity - Cardinality(Granted)) * Scale

\* C4 witness: one caller is about to take the last token while another
\* waits on the mutex.
C4_Contended ==
  /\ now = 0 /\ tokens = Scale
  /\ \E p, q \in Callers :
       p # q /\ callPc[p] = "dec" /\ callPc[q] = "lock"

\* the step takes caller p out of position pc of Consume
Leaves(p, pc) == callPc[p] = pc /\ callPc'[p] # pc

\* tokens + elapsed*refillRate, capped at capacity, as the claim words it
RefilledCount ==
  LET t == tokens + (now - lastRefill) * refillRate
  IN IF t > capacity * Scale THEN capacity * Scale ELSE t

\* C21: the refill step of a call sets the count to the old count plus
\* elapsed*refillRate, capped at capacity, and lastRefill to the current
\* time; the call goes on to subtract exactly one token and return true iff
\* that count is at least one token, and otherwise returns false at once
\* with the refilled count left as it is; between the refill and the return
\* nothing else touches the count.
C21_StepRule ==
  /\ [](\A p \in Callers :
          /\ callPc[p] = "dec" => tokens >= Scale /\ mu = p
          /\ (callPc[p] = "unlock" /\ ~log[Len(log)].ok)
               => tokens < Scale /\ mu = p)
  /\ [][\A p \in Callers :
          /\ Leaves(p, "refill")
               => /\ tokens' = RefilledCount /\ lastRefill' = now
                  /\ RefilledCount >= Scale
                       => callPc'[p] = "dec" /\ log' = log
                  /\ RefilledCount < Scale
                       => /\ callPc'[p] = "unlock"
                          /\ log' = Append(log, [ok |-> FALSE, at |-> now])
          /\ Leaves(p, "dec")
               => /\ tokens' = tokens - Scale /\ lastRefill' = lastRefill
                  /\ callPc'[p] = "unlock"
                  /\ log' = Append(log, [ok |-> TRUE, at |-> callNow[p]])
          /\ Leaves(p, "unlock")
               => <<tokens, lastRefill, log>>' = <<tokens, lastRefill, log>>
          /\ callPc[p] \in {"dec", "unlock"}
               => \A q \in Callers \ {p} : ~Leaves(q, "refill") /\ ~Leaves(q, "dec")]_vars

\* C21 witness: a call made after the bucket was emptied found a refilled
\* count of a fraction of a token, below one, and is returning false with
\* that fraction kept and lastRefill at the current time; an earlier call
\* had been granted.
C21_FractionRejected ==
  \E p \in Callers :
    /\ callPc[p] = "unlock"
    /\ Len(log) >= 2 /\ log[1].ok /\ ~log[Len(log)].ok
    /\ 0 < tokens /\ tokens < Scale
    /\ now > 0 /\ lastRefill = now

----------------------------------------------------------------------------
(***************************************************************************)
(* Properties of the scraper                                               *)
(***************************************************************************)

\* the items of task s that its loop has been through
Attempted(s) == {parsedFeed[s][i] : i \in 1..(itemIdx[s] - 1)}

\* no scrapeFeed goroutine is running
Quiescent == \A s \in Sources : taskPc[s] \in {"idle", "done"}

\* C5 as stated: once the tasks of a cycle, each of which went through the
\* same url, have all returned, exactly one post with that url is stored and
\* exactly one CreatePost call was taken as a new post.
C5_ExactlyOne ==
  \A l \in Links :
    (Quiescent /\ \A s \in Sources : l \in Attempted(s))
      => posts[l] = 1 /\ counted[l] = 1

\* C5 amended: a url never has more than one post; the CreatePost calls taken
\* as new posts are exactly the posts stored (so at most one per url); and a
\* url that some task went through without a storage failure has its post.
C5_AtMostOnce ==
  \A l \in Links :
    /\ posts[l] <= 1
    /\ counted[l] = posts[l]
    /\ \A s \in Sources :
         (l \in Attempted(s) /\ l \notin failedNow[s]) => posts[l] = 1

\* C5 witness: in one cycle two tasks went through the same single url with
\* no storage failure; one of them counted a new post, the other a conflict,
\* and one post is stored.
C5_OneInsertedOneConflict ==
  \E l \in Links : \E a, b \in Sources :
    /\ a # b
    /\ taskPc[a] = "done" /\ taskPc[b] = "done"
    /\ parsedFeed[a] = <<l>> /\ parsedFeed[b] = <<l>>
    /\ failedNow[a] = {} /\ failedNow[b] = {}
    /\ newPostCount[a] + newPostCount[b] = 1
    /\ posts[l] = 1 /\ counted[l] = 1

\* the step is a failure of task a: its fetch fails or one of its inserts does
FailureOf(a) ==
  \/ ~fetchFailed[a] /\ fetchFailed'[a]
  \/ failedNow'[a] # failedNow[a] /\ failedNow'[a] # {}

\* what scrapeFeed holds for source b
TaskState(b) ==
  <<taskPc[b], parsedFeed[b], fetchFailed[b], itemIdx[b], newPostCount[b],
    failedNow[b], followers[b]>>

\* task b can take its next step of fetching or inserting
CanProceed(b) ==
  \/ ENABLED (\E items \in FeedLists : TaskFetchOk(b, items))
  \/ ENABLED TaskInsert(b)
  \/ ENABLED TaskFinish(b)

\* C6 as stated, over an empty posts table: a task that fetched its feed and
\* met no storage failure counted every distinct url of its feed as a new
\* post, as it does when its sibling's fetch fails.
C6_SameAsAlone ==
  \A b \in Sources :
    (cycle = 1 /\ taskPc[b] = "done" /\ ~fetchFailed[b] /\ failedNow[b] = {})
      => newPostCount[b] = Cardinality(Range(parsedFeed[b]))

\* C6 amended: a failure of one task leaves every other task, the posts and
\* the scheduler as they were and ends at most that one task; a task that is
\* fetching or inserting can always take its next step; and every url a task
\* went through without a storage failure is stored, by this task or by
\* another one.
C6_FailureIsolated ==
  /\ [](\A b \in Sources :
          /\ taskPc[b] \in {"fetch", "items"} => CanProceed(b)
          /\ \A l \in Attempted(b) \ failedNow[b] : posts[l] = 1)
  /\ [][\A a \in Sources :
          FailureOf(a)
            => /\ \A b \in Sources \ {a} : TaskState(b)' = TaskState(b)
               /\ posts' = posts
               /\ <<schedPc, cycle, toLaunch>>' = <<schedPc, cycle, toLaunch>>
               /\ wg' >= wg - 1]_vars

\* C6 witness: in one cycle the fetch of a source failed and its sibling went
\* through a feed of MaxItems distinct urls, all of them counted as new posts
\* and stored.
C6_SiblingUnaffected ==
  \E a, b \in Sources :
    /\ a # b
    /\ taskPc[a] = "done" /\ fetchFailed[a]
    /\ taskPc[b] = "done" /\ ~fetchFailed[b]
    /\ Len(parsedFeed[b]) = MaxItems
    /\ Cardinality(Range(parsedFeed[b])) = MaxItems
    /\ failedNow[b] = {}
    /\ newPostCount[b] = MaxItems
    /\ \A l \in Range(parsedFeed[b]) : posts[l] = 1

\* scrapeFeed for source s is running: it is fetching, inserting or submitting
\* its notification
Running(s) == taskPc[s] \in {"fetch", "items", "send"}

\* the scheduler's step from wg.Wait() back to the ticker, which ends the cycle
CycleEnds == schedPc = "wait" /\ schedPc' = "ticker"

\* C14: the scheduler goes from the running cycle back to the ticker only
\* when every task launched for the tick has returned (each source's task is
\* done, the wait group counts none), and while it waits at the ticker no
\* task is fetching, inserting or submitting; the wait group counts exactly
\* the running tasks.
C14_CycleBarrier ==
  /\ [](/\ wg = Cardinality({s \in Sources : Running(s)})
        /\ schedPc = "ticker" => \A s \in Sources : ~Running(s))
  /\ [][CycleEnds => /\ wg = 0
                      /\ \A s \in Sources : taskPc[s] = "done"]_vars

\* C14 witness: the first cycle is over and the scheduler is back at the
\* ticker after every source's task fetched a feed and stored a post, and the
\* hub is still going through a notification one of them submitted.
C14_BarrierPassed ==
  /\ schedPc = "ticker" /\ cycle = 1
  /\ \A s \in Sources : lastFeed[s] # NoLastFeed /\ lastFeed[s].items # <<>>
  /\ \E l \in Links : posts[l] = 1
  /\ hubPc = "signal"

\* C15 as stated: whenever a tick is waiting on ticker.C while tasks of the
\* running cycle have not returned, the scheduler can take it and start the
\* next cycle.
C15_TickAcceptedWhileRunning ==
  (tickPending /\ cycle < MaxCycles /\ \E s \in Sources : Running(s))
    => ENABLED (\E table \in FeedTables : SchedTick(table))

\* C15 amended: a cycle starts only with the scheduler at the ticker, the
\* wait group at zero and no task running, so no two cycles run at the same
\* time; a tick that fired while tasks are running stays on ticker.C until
\* then, and it leaves ticker.C only by starting a cycle.
C15_NoOverlap ==
  /\ []((\E s \in Sources : Running(s)) => schedPc \in {"dispatch", "wait"})
  /\ [][cycle' # cycle
          => /\ schedPc = "ticker" /\ wg = 0
             /\ \A s \in Sources : ~Running(s)
             /\ tickPending /\ cycle' = cycle + 1]_vars
  /\ [][(tickPending /\ ~tickPending') => cycle' = cycle + 1]_vars
  /\ [][(tickPending /\ \E s \in Sources : Running(s))
          => tickPending' /\ cycle' = cycle]_vars

\* C15 witness: a tick fired during the first cycle and waits on ticker.C
\* while the scheduler is in wg.Wait() and a task is still running.
C15_TickWaits ==
  /\ tickPending /\ cycle = 1 /\ schedPc = "wait"
  /\ \E s \in Sources : Running(s)

\* the step starts the goroutine of source s
Launches(s) == taskPc[s] = "idle" /\ taskPc'[s] = "fetch"

\* C16: a task is launched only by the dispatch loop and never while a source
\* that the order (priority descending, then last-updated ascending) puts
\* strictly before it is still to be launched, so a source of higher priority
\* is launched first; and when the cycle ends every source has been launched
\* and every source whose fetch succeeded has been through all the items of
\* its feed, each of them stored unless its insert failed.
C16_DispatchOrder ==
  /\ [][\A s \in Sources :
          Launches(s)
            => /\ schedPc = "dispatch"
               /\ \A t \in Sources \ {s} : taskPc[t] = "idle" => ~Before(t, s)
               /\ \A t \in Sources \ {s} :
                    (taskPc[t] = "idle" /\ feeds[s].priority # feeds[t].priority)
                      => feeds[s].priority > feeds[t].priority]_vars
  /\ [][CycleEnds
          => \A s \in Sources :
               /\ taskPc[s] = "done"
               /\ ~fetchFailed[s]
                    => /\ itemIdx[s] = Len(parsedFeed[s]) + 1
                       /\ \A l \in Range(parsedFeed[s]) \ failedNow[s] : posts[l] = 1]_vars

\* C16 witness: the source launched second has returned, having been through
\* a feed of MaxItems items, while the source launched first is still
\* running: the tasks complete in the other order than they were launched.
C16_SecondFinishesFirst ==
  \E a, b \in Sources :
    /\ toLaunch = <<a, b>> /\ schedPc = "wait"
    /\ Running(a)
    /\ taskPc[b] = "done" /\ ~fetchFailed[b]
    /\ Len(parsedFeed[b]) = MaxItems /\ itemIdx[b] = MaxItems + 1

\* the step is one iteration of the item loop of task s
Inserts(s) == itemIdx'[s] = itemIdx[s] + 1

\* C17 as stated: a task that has been through the feed its source had in the
\* previous cycle counted no new post and had no insert other than a conflict.
C17_SecondCycleAllConflict ==
  \A s \in Sources :
    (sameFeed[s] # "no" /\ taskPc[s] = "done")
      => newPostCount[s] = 0 /\ failedNow[s] = {}

\* C17 amended: when a task fetches the feed its source had in the previous
\* cycle and no insert of that cycle failed, every url of the feed is stored
\* already; each of the task's inserts is a conflict or a storage failure and
\* leaves the posts as they are, its counter of new posts stays 0, and it
\* calls neither sendNewPostSignal nor the hub.
C17_Idempotent ==
  /\ [](\A s \in Sources :
          sameFeed[s] = "clean"
            => /\ \A l \in Range(parsedFeed[s]) : posts[l] = 1
               /\ newPostCount[s] = 0
               /\ taskPc[s] # "send" /\ followers[s] = {})
  /\ [][\A s \in Sources :
          (sameFeed[s] = "clean" /\ Inserts(s))
            => /\ posts' = posts /\ counted' = counted
               /\ newPostCount'[s] = 0]_vars
  /\ [][\A s \in Sources :
          (sameFeed[s] = "clean" /\ taskPc[s] # taskPc'[s] /\ taskPc[s] = "items")
            => taskPc'[s] = "done" /\ <<hubPc, signals>>' = <<hubPc, signals>>]_vars

\* C17 witness: in the second cycle a task has been through the same feed of
\* MaxItems items as in the first cycle, where none of its inserts failed:
\* all were conflicts, the urls are stored once and nothing was counted.
C17_SecondCycleQuiet ==
  \E s \in Sources :
    /\ cycle = 2 /\ sameFeed[s] = "clean" /\ taskPc[s] = "done"
    /\ Len(parsedFeed[s]) = MaxItems /\ itemIdx[s] = MaxItems + 1
    /\ newPostCount[s] = 0 /\ failedNow[s] = {}
    /\ \A l \in Range(parsedFeed[s]) : posts[l] = 1 /\ counted[l] = 1

\* C19 as stated: a task that calls SendSignal can always return from it,
\* whatever Run is doing.
C19_SubmitNeverWaits ==
  \A s \in Sources : taskPc[s] = "send" => ENABLED TaskSendSignal(s)

\* C19 amended: SendSignal is a rendezvous with Run. A task in SendSignal can
\* return exactly when Run is at its select; it returns by Run taking its map,
\* before any payload of the map is handled; and while Run is going through a
\* map it always has a next step, so it comes back to its select.
C19_Rendezvous ==
  /\ [](\A s \in Sources :
          taskPc[s] = "send" => (ENABLED TaskSendSignal(s) <=> hubPc = "select"))
  /\ [](hubPc = "signal" => \E u \in Users : ENABLED HubSignalStep(u))
  /\ [][\A s \in Sources :
          (taskPc[s] = "send" /\ taskPc'[s] # "send")
            => /\ hubPc = "select" /\ hubPc' = "signal"
               /\ signals' = followers[s] /\ hubTodo' = followers[s]
               /\ hubPayload' = newPostCount[s]
               /\ taskPc'[s] = "done" /\ wg' = wg - 1]_vars

\* C19 witness: a task is in SendSignal while Run is still going through the
\* map of its sibling, which has returned: the task is suspended.
C19_TaskSuspended ==
  \E a, b \in Sources :
    /\ a # b
    /\ taskPc[a] = "send" /\ followers[a] # {}
    /\ taskPc[b] = "done" /\ newPostCount[b] > 0
    /\ hubPc = "signal" /\ hubTodo # {}
    /\ ~ENABLED TaskSendSignal(a)

\* the sum of f over the finite set S
RECURSIVE SumOver(_, _)
SumOver(f, S) ==
  IF S = {} THEN 0
  ELSE LET x == CHOOSE y \in S : TRUE IN f[x] + SumOver(f, S \ {x})

\* C22: a step of a task in its item loop either handles the item the loop
\* is at and moves to the next one, whatever the outcome, adding one to the
\* task's counter exactly when the step stored a post (no other url changes),
\* or, with every item handled, leaves the loop without touching counter or
\* posts; so during the first cycle, over an empty posts table, the counters
\* of the tasks add up to the posts stored.
C22_CountsInserted ==
  /\ []((cycle = 1 /\ schedPc # "ticker")
          => SumOver(newPostCount, Sources) = SumOver(posts, Links))
  /\ [][\A s \in Sources :
          (taskPc[s] = "items" /\ TaskState(s)' # TaskState(s))
            => IF itemIdx[s] <= Len(parsedFeed[s])
                 THEN LET l == parsedFeed[s][itemIdx[s]]
                      IN /\ itemIdx'[s] = itemIdx[s] + 1
                         /\ taskPc'[s] = "items" /\ parsedFeed'[s] = parsedFeed[s]
                         /\ posts'[l] - posts[l] \in {0, 1}
                         /\ \A k \in Links \ {l} : posts'[k] = posts[k]
                         /\ newPostCount'[s] = newPostCount[s] + (posts'[l] - posts[l])
                 ELSE /\ newPostCount'[s] = newPostCount[s]
                      /\ posts' = posts
                      /\ taskPc'[s] \in {"send", "done"}]_vars

\* C22 witness: a task went through a feed of two urls; the insert of the
\* first failed, the loop went on, the second was stored and counted: the
\* counter is 1 at the end of the loop.
C22_FailureThenInserted ==
  \E s \in Sources : \E l1, l2 \in Links :
    /\ l1 # l2 /\ parsedFeed[s] = <<l1, l2>>
    /\ taskPc[s] \in {"send", "done"} /\ itemIdx[s] = 3
    /\ failedNow[s] = {l1} /\ posts[l1] = 0
    /\ posts[l2] = 1 /\ newPostCount[s] = 1
    /\ \A t \in Sources \ {s} : fetchFailed[t]

\* the urls task s has been through that are stored
Ingested(s) == {l \in Attempted(s) : posts[l] = 1}

\* C23: a task is in sendNewPostSignal's SendSignal only with a counter above
\* 0, its item loop over and a non-empty signals map; its counter is at most
\* the urls it has been through that are stored, which include every url
\* whose insert did not fail; the
\* hub receives a map only from such a task, and the payload it receives is
\* that task's counter; a task whose counter is 0 returns without the hub
\* hearing of it.
C23_NotifyAfterIngest ==
  /\ [](\A s \in Sources :
          /\ taskPc[s] = "send"
               => /\ newPostCount[s] > 0
                  /\ itemIdx[s] = Len(parsedFeed[s]) + 1
                  /\ followers[s] # {}
          /\ newPostCount[s] <= Cardinality(Ingested(s))
          /\ \A l \in Attempted(s) \ failedNow[s] : posts[l] = 1)
  /\ [][(hubPc = "select" /\ hubPc' = "signal")
          => \E s \in Sources :
               /\ taskPc[s] = "send" /\ taskPc'[s] = "done"
               /\ hubPayload' = newPostCount[s] /\ hubPayload' > 0
               /\ signals' = followers[s]]_vars
  /\ [][\A s \in Sources :
          (taskPc[s] = "items" /\ taskPc'[s] # "items" /\ newPostCount[s] = 0)
            => taskPc'[s] = "done" /\ hubVars' = hubVars]_vars

\* C23 witness: the hub is going through the map of a task that stored and
\* counted MaxItems posts, with that count as payload, and the sibling, which
\* went through a feed without storing anything, returned without a signal.
C23_OneSignalOneSilent ==
  \E s, t \in Sources :
    /\ s # t
    /\ taskPc[s] = "done" /\ newPostCount[s] = MaxItems
    /\ hubPc = "signal" /\ hubPayload = MaxItems /\ signals # {}
    /\ taskPc[t] = "done" /\ ~fetchFailed[t]
    /\ parsedFeed[t] # <<>> /\ newPostCount[t] = 0

\* connection c waits in a send on hub.register or hub.unregister
HandOffPending(c) == clientPc[c] \in {"registering", "unregistering"}

\* C24: while a session waits to hand a Register or an Unregister to Run,
\* Run has a next step, whatever the state of any queue or pump: it is at its
\* select, where it takes a hand-off, or it is going through a map, where
\* each iteration is a non-blocking send.
C24_RunNeverStops ==
  \A c \in Clients : HandOffPending(c) => ENABLED HubStep

\* connection c has failed and is not torn down yet: its read task waits to
\* hand its Unregister to Run, or its pump returned on a write error (closing
\* the conn) while the read task is still in ReadMessage, or its read task is
\* gone (the conn closed) while the pump is still running
TearingDown(c) ==
  \/ clientPc[c] = "unregistering"
  \/ clientPc[c] = "reading" /\ pumpPc[c] = "failed"
  \/ clientPc[c] = "exited" /\ pumpPc[c] = "running"

\* a step of the teardown of c: its read fails, Run takes a step, or its pump
\* finds the queue closed or a write failing
TeardownStep(c) ==
  \/ HubStep
  \/ Alive /\ (ReadErr(c) \/ PumpWriteFail(c) \/ PumpClosed(c) \/ PumpPing(c))
           /\ UNCHANGED <<authVars, auditVars, keepVars, bucketVars, gateVars, scraperVars>>

\* C25: a connection that has failed and is not torn down yet always has a
\* next step of its teardown, so that the teardown cannot stop before Run
\* has processed its Unregister and both its tasks have returned.
C25_TeardownProceeds ==
  \A c \in Clients : TearingDown(c) => ENABLED TeardownStep(c)

\* C26 as stated: the pump never has two pings outstanding at once.
C26_OneProbeOutstanding == unacked <= 1

\* C26 amended: at every tick of its ticker, while the conn is open, the pump
\* writes a ping, whatever the number of pings still unanswered, which goes
\* up by one; an open conn has a read deadline at most pongWait ahead that
\* has not passed, so every ping is written less than pongWait after the
\* session started or the last pong was read.
C26_PingsEveryTick ==
  /\ []((keepPc = "open" /\ clock = pingAt) => ENABLED PumpPingSend)
  /\ [](keepPc = "open"
          => clock <= readDeadline /\ readDeadline <= clock + pongWait)
  /\ [][pingAt' # pingAt
          => /\ keepPc = "open" /\ clock = pingAt
             /\ unacked' = unacked + 1
             /\ pingAt' = pingAt + pingPeriod
             /\ clock <= readDeadline]_vars

\* C26 witness: the conn is open and two pings are unanswered: the pongs came
\* later and later, each within the read deadline, until one was still on its
\* way at the next tick.
C26_TwoOutstanding == keepPc = "open" /\ unacked = 2

\* the sources whose task has been launched in the running cycle
Launched == {s \in Sources : taskPc[s] # "idle"}

\* C28: the wait group counts the launched tasks that have not returned; it
\* goes up only by one, at the launch of one task for a source of the list
\* that has no task yet, and an iteration over an item leaves it and every
\* task's position alone; once the dispatch loop is over, the tasks launched
\* are one for each source of the list.
C28_OneTaskPerSource ==
  /\ [](/\ wg + Cardinality({s \in Sources : taskPc[s] = "done"})
             = Cardinality(Launched)
        /\ schedPc = "wait"
             => /\ Launched = Range(toLaunch)
                /\ Cardinality(Launched) = Len(toLaunch))
  /\ [][wg' > wg
          => /\ wg' = wg + 1 /\ schedPc = "dispatch"
             /\ \E s \in Range(toLaunch) :
                  /\ Launches(s)
                  /\ \A t \in Sources \ {s} : taskPc'[t] = taskPc[t]]_vars
  /\ [][\A s \in Sources :
          (taskPc'[s] = "fetch" /\ taskPc[s] # "fetch")
            => taskPc[s] = "idle" /\ wg' = wg + 1]_vars
  /\ [][\A s \in Sources : Inserts(s) => wg' = wg /\ taskPc' = taskPc]_vars

\* C28 witness: the dispatch loop is over, every source has its one task and
\* each task is in the middle of a feed of MaxItems items: the wait group
\* counts the sources, not the items.
C28_TasksPerSourceNotItem ==
  /\ schedPc = "wait" /\ wg = NumSources
  /\ \A s \in Sources :
       taskPc[s] = "items" /\ Len(parsedFeed[s]) = MaxItems /\ itemIdx[s] = 2

\* C29: no step of the scheduler, of a task or of the hub they submit to
\* changes the feeds table: no row is added, removed or rewritten; when a
\* cycle ends every source's priority and updated_at are what the cycle's
\* query read.
C29_SourcesReadOnly ==
  /\ [][feedTable' = feedTable /\ DOMAIN feedTable' = Sources]_vars
  /\ [][CycleEnds => feedTable' = tableAtTick]_vars
  /\ [](schedPc # "ticker" => feedTable = tableAtTick)

\* C29 witness: the last cycle is over, every source's feed was fetched in it
\* and posts were stored, and the table is the one the cycle's query read.
C29_TableKeptThroughCycles ==
  /\ cycle = MaxCycles /\ schedPc = "ticker"
  /\ \A s \in Sources : lastFeed[s] # NoLastFeed
  /\ \E l \in Links : posts[l] = 1
  /\ feedTable = tableAtTick

\* C30 as stated: when a cycle ends, every source whose task ran in it has an
\* updated_at later than the one the cycle's query read.
C30_FetchAdvancesUpdatedAt ==
  [][CycleEnds
       => \A s \in Sources :
            taskPc[s] = "done"
              => feedTable'[s].updatedAt > tableAtTick[s].updatedAt]_vars

\* C31 as stated: whenever Run closes a connection's queue, in the unregister
\* case (an entry exists for the connection's identity) or in the overflow
\* branch of the signal case, that queue has not been closed before.
C31_ClosedAtMostOnce ==
  [][\A c \in Clients :
       /\ (HubUnregister(c) /\ clients[UserOf(c)] # NoClient) => ~sendClosed[c]
       /\ \A u \in Users :
            (HubSignalStep(u) /\ clients[u] = c /\ ~CanSend(c)) => ~sendClosed[c]]_vars

\* C32: every connection the registry routes to has an open queue, and an
\* iteration of Run over a Submit never meets a registered connection whose
\* queue is closed (the send that would panic is never made).
C32_RegisteredImpliesOpen ==
  /\ [](\A u \in Users : clients[u] # NoClient => ~sendClosed[clients[u]])
  /\ [][\A u \in Users :
          HubSignalStep(u) => (clients[u] = NoClient \/ ~sendClosed[clients[u]])]_vars
  /\ [][\A u \in Users : HubSignalStep(u) => panicked' = panicked]_vars

\* C32 witness: Run is going through a Submit for an identity whose earlier
\* connection had its queue closed and whose newer connection is registered
\* with an open queue that already holds a payload.
C32_OpenBesideClosed ==
  \E u \in Users, c, d \in Clients :
    /\ ~panicked
    /\ c # d /\ UserOf(c) = u /\ UserOf(d) = u
    /\ sendClosed[c]
    /\ clients[u] = d /\ ~sendClosed[d] /\ send[d] # <<>>
    /\ hubPc = "signal" /\ u \in hubTodo

\* C33: a task's return takes the wait group down by exactly one and happens
\* once per launched task, on every path (the counter never goes below zero
\* and goes down only with a running task becoming done); with the
\* goroutines scheduled fairly, every cycle that started gets back to the
\* ticker.
C33_CycleTerminates ==
  /\ [](wg >= 0)
  /\ [][\A s \in Sources :
          (taskPc'[s] = "done" /\ taskPc[s] # "done")
            => Running(s) /\ wg' = wg - 1]_vars
  /\ [][wg' < wg
          => /\ wg' = wg - 1
             /\ \E s \in Sources : Running(s) /\ taskPc'[s] = "done"]_vars
  /\ (schedPc # "ticker") ~> (schedPc = "ticker")

\* C33 witness: the barrier is reached with one task back from a failed fetch
\* and the other back after storing a post.
C33_BarrierAfterMixedPaths ==
  /\ schedPc = "wait" /\ wg = 0
  /\ \E s, t \in Sources :
       /\ taskPc[s] = "done" /\ fetchFailed[s]
       /\ taskPc[t] = "done" /\ newPostCount[t] > 0

\* C34: a tick whose GetFeedsByPriority fails leaves the scheduler at the
\* ticker with no task launched, nothing stored and nothing handed to the
\* hub; while the scheduler is at the ticker no task exists that could insert
\* or submit; and the next tick can be taken there and start a dispatch.
C34_FailedReadSkipsCycle ==
  /\ [][(cycle' = cycle + 1 /\ schedPc' # "dispatch")
          => /\ schedPc' = "ticker"
             /\ wg' = 0 /\ toLaunch' = <<>>
             /\ \A s \in Sources : taskPc'[s] = "idle"
             /\ posts' = posts /\ followers' = followers
             /\ hubVars' = hubVars]_vars
  /\ [](schedPc = "ticker"
          => \A s \in Sources : taskPc[s] = "idle" /\ followers[s] = {})
  /\ []((schedPc = "ticker" /\ tickPending /\ cycle < MaxCycles)
          => ENABLED (SchedTick(feedTable) /\ schedPc' = "dispatch"))

\* C34 witness: the first tick's query failed, nothing was stored, and the
\* next tick is waiting for a scheduler that is back at the ticker.
C34_NextTickAfterFailedRead ==
  /\ cycle = 1 /\ schedPc = "ticker" /\ tableAtTick = NoRows
  /\ tickPending
  /\ \A l \in Links : posts[l] = 0
  /\ ~panicked

\* C35: a task is in SendSignal only with a non-empty map; a task that
\* leaves its item loop for its return (no new post, or new posts with a
\* failed or empty follower lookup) hands nothing to the hub and takes the
\* wait group down by one; the map Run receives is the task's follower set
\* with the one payload of the task's count, the task submits it once, and
\* Run goes through each of its identities once with that payload.
C35_AudienceOrNothing ==
  /\ [](\A s \in Sources :
          taskPc[s] = "send" => followers[s] # {} /\ newPostCount[s] > 0)
  /\ [][\A s \in Sources :
          (taskPc[s] = "items" /\ taskPc'[s] = "done")
            => hubVars' = hubVars /\ wg' = wg - 1]_vars
  /\ [][(hubPc = "select" /\ hubPc' = "signal")
          => \E s \in Sources :
               /\ taskPc[s] = "send" /\ taskPc'[s] = "done"
               /\ signals' = followers[s] /\ hubTodo' = followers[s]
               /\ hubPayload' = newPostCount[s]
               /\ wg' = wg - 1]_vars
  /\ [][\A s \in Sources : taskPc[s] = "send" => taskPc'[s] \in {"send", "done"}]_vars
  /\ [][\A u \in Users :
          HubSignalStep(u)
            => /\ u \in signals /\ u \notin hubTodo'
               /\ hubTodo' # {} => hubPayload' = hubPayload /\ signals' = signals]_vars

\* C35 witness: Run is going through the map a task submitted for all of its
\* NumUsers followers, with that task's count as the payload, while the other
\* task, which stored a post as well, has returned and holds no map.
C35_OneBatchOneSilentReturn ==
  \E s, t \in Sources :
    /\ s # t
    /\ hubPc = "signal" /\ Cardinality(signals) = NumUsers
    /\ hubPayload = newPostCount[s] /\ taskPc[s] = "done"
    /\ taskPc[t] = "done" /\ newPostCount[t] > 0 /\ followers[t] = {}

\* C36: the pumps of a connection start at the step in which Run takes its
\* Register and routes its identity to it; before that the connection has no
\* pump, an open and empty queue and no place in the registry; a connection
\* asks to unregister only from its read task, once, and Run takes that
\* Unregister only from a connection whose Register it has taken.
C36_RegisterBeforeUnregister ==
  /\ [](\A c \in Clients :
          clientPc[c] \in {"new", "registering"}
            => /\ pumpPc[c] = "none" /\ ~sendClosed[c] /\ send[c] = <<>>
               /\ \A u \in Users : clients[u] # c)
  /\ [][\A c \in Clients :
          (pumpPc[c] = "none" /\ pumpPc'[c] # "none")
            => /\ clientPc[c] = "registering" /\ clientPc'[c] = "reading"
               /\ HubRegister(c) /\ clients'[UserOf(c)] = c]_vars
  /\ [][\A c \in Clients :
          /\ (clientPc'[c] = "unregistering" /\ clientPc[c] # "unregistering")
               => clientPc[c] = "reading"
          /\ (clientPc'[c] = "exited" /\ clientPc[c] # "exited")
               => clientPc[c] = "unregistering" /\ pumpPc[c] # "none"
          /\ clientPc[c] = "exited" => clientPc'[c] = "exited"]_vars

\* C36 witness: a connection has gone through Register, its read task's
\* failure and Unregister, and its queue was closed, while another connection
\* is still waiting for Run to take its Register.
C36_FullLifeBesideNewcomer ==
  \E c, d \in Clients :
    /\ clientPc[c] = "exited" /\ sendClosed[c] /\ pumpPc[c] # "none"
    /\ clientPc[d] = "registering" /\ pumpPc[d] = "none"
    /\ ~panicked

RowsOf(rows, a) == {r \in rows : r.userID = a}

\* C38: with the handlers run one at a time, an account never has more than
\* one stored refresh token; a login or refresh that succeeds leaves the
\* account with exactly the row of the token just generated and every other
\* account's rows as they were, and one that fails leaves the table as it
\* was; a token that a refresh succeeded with, or that was stored when its
\* account logged in again or logged out, has no row and is refused by
\* every later refresh.
C38_RefreshTokenRotation ==
  /\ [](\A a \in Accounts : Cardinality(RowsOf(refreshTokens, a)) <= 1)
  /\ [][((\E a \in Accounts : HandlerLogin(a)) \/
          (\E t \in 0..minted : HandlerRefreshToken(t)))
          => IF minted' = minted
               THEN refreshTokens' = refreshTokens
               ELSE \E a \in users :
                      /\ RowsOf(refreshTokens', a)
                           = {[userID |-> a,
                               tokenHash |-> HashRefreshToken(minted'),
                               expired |-> FALSE]}
                      /\ StoredTokens(a) \subseteq spent'
                      /\ \A b \in Accounts \ {a} :
                           RowsOf(refreshTokens', b) = RowsOf(refreshTokens, b)]_vars
  /\ [](\A t \in spent :
          GetRefreshTokenByHash(refreshTokens, HashRefreshToken(t)) = {})
  /\ [][\A t \in spent :
          HandlerRefreshToken(t) => authLog'.status # 200 /\ minted' = minted]_vars
  /\ [][spent \subseteq spent']_vars

\* C38 witness: both accounts hold one token each, two tokens have been
\* rotated out, and the last request, a refresh with one of those, was
\* refused.
C38_SpentTokenRefused ==
  /\ \A a \in Accounts : Cardinality(RowsOf(refreshTokens, a)) = 1
  /\ Cardinality(spent) >= 2
  /\ authLog.op = "refresh" /\ authLog.token \in spent
  /\ authLog.status = 500

====
